---- MODULE Spec2Model ----
(***************************************************************************)
(* A model of the connector host's core: the CircuitBreaker                *)
(* (src/core/CircuitBreaker.ts), the process-wide TTL cache and the        *)
(* ConnectorFacade (src/core/ConnectorFacade.ts), with the part of the     *)
(* ConnectorRegistry and of the session's facade map that decides which    *)
(* impl a Facade wraps.                                                    *)
(*                                                                         *)
(* Time is a discrete clock `now` (Date.now()).  A timer armed with        *)
(* setTimeout fires when it is due: the clock does not move past a due     *)
(* timer (Tick's guard).                                                   *)
(***************************************************************************)
EXTENDS Integers, Sequences, FiniteSets, Bags, TLC

(***************************************************************************)
(* Bounds of the model.  The breaker's options are constructor arguments   *)
(* (CircuitBreaker.ts:10-18); the model runs them small.                   *)
(***************************************************************************)
FailureThreshold == 2
SuccessThreshold == 2
HalfOpenAfterMs == 1
MaxConcurrent == 2
TimeoutMs == 2
MaxTime == 5
NumCalls == 3
NumOps == 2
OneCaller == 1
MaxVer == 3

VARIABLES
    now,        \* Date.now()
    cb,         \* the breaker under direct test: state, failures, successes, openedAt, inflight
    calls,      \* the caller's exec() invocations: call slot -> [status, startedAt]
    last,       \* history: the most recent breaker event, with the breaker as it was before it
    win,        \* history: failures since the breaker was CLOSED with no success since (-1: no such window)
    openTime,   \* history: when the breaker last went from not-OPEN to OPEN
    halfSucc,   \* history: successes settled since the breaker last became HALF
    probe,      \* history: the call slot admitted by the OPEN -> HALF transition (0: none)
    factories,  \* ConnectorRegistry.factories: what the registered factory's spi looks like
    instances,  \* ConnectorRegistry.instances: id -> the instance's impl
    facades,    \* the session's facades map: id -> the Facade's impl and breaker
    cache,      \* the module-level LRU cache of ConnectorFacade.ts: key -> entry
    backend,    \* what each connector's backend holds: id -> objectClass -> uid -> object
    ops,        \* Facade calls in progress: a bag of calls, each with how far it has got
    flast,      \* history: what the step just taken returned (or threw) to a Facade's caller
    committed,  \* history: per object, the latest version whose write has returned successfully
    svc,        \* RemoteConnectorService: ws, reconnectDelayMs, reconnectHandle, shuttingDown
    timers,     \* the reconnect timers armed by setTimeout and not yet fired or cleared
    socks,      \* the WebSockets the session has created: id -> readyState
    fetching,   \* openConnection() calls awaiting oauth.getToken()
    pending,    \* operation frames awaiting their Facade call
    replies,    \* history: requestId -> the response frames sent for it
    slast,      \* history: the session's most recent step
    kth,        \* history: reconnect timers armed since start or the last successful open
    oauth,      \* OAuthTokenProvider: accessToken, the token requests in flight, its callers
    registry,   \* ConnectorRegistry: factories, config builders, instances
    loader,     \* loadExternalConnectors: the connector directories and how far the loop got
    filter,     \* parseFilter and the translators: the input, the AST, the queries
    search,     \* a streaming search: the pages, the handler, the cookie
    auth,       \* requireJwt: the clock, the jti cache, the requests answered
    http        \* the router: the request being routed and its answer

bvars == <<cb, calls, last, win, openTime, halfSucc, probe>>
fvars == <<factories, instances, facades, cache, backend, ops, flast, committed>>
svars == <<svc, timers, socks, fetching, pending, replies, slast, kth>>
uvars == <<oauth, registry, loader, filter, search, auth, http>>
vars == <<now, cb, calls, last, win, openTime, halfSucc, probe,
          factories, instances, facades, cache, backend, ops, flast, committed,
          svc, timers, socks, fetching, pending, replies, slast, kth,
          oauth, registry, loader, filter, search, auth, http>>

Calls == 1..NumCalls

Min(a, b) == IF a < b THEN a ELSE b
Max(a, b) == IF a > b THEN a ELSE b

----------------------------------------------------------------------------
(* CircuitBreaker *)

BreakerInit ==
    [state |-> "CLOSED", failures |-> 0, successes |-> 0, openedAt |-> 0, inflight |-> 0]

open(b, t) == [b EXCEPT !.state = "OPEN", !.openedAt = t]

close(b) == [b EXCEPT !.state = "CLOSED", !.failures = 0, !.successes = 0]

onSuccessOffByOne(b) ==
    IF b.state = "HALF"
    THEN LET b1 == [b EXCEPT !.successes = @ + 1]
         IN  IF b1.successes > SuccessThreshold THEN close(b1) ELSE b1
    ELSE [b EXCEPT !.failures = 0]

onSuccess(b) ==
    IF b.state = "HALF"
    THEN LET b1 == [b EXCEPT !.successes = @ + 1]
         IN  IF b1.successes >= SuccessThreshold THEN close(b1) ELSE b1
    ELSE [b EXCEPT !.failures = 0]

onFailureOffByOne(b, t) ==
    IF b.state = "HALF"
    THEN open(b, t)
    ELSE LET b1 == [b EXCEPT !.failures = @ + 1]
         IN  IF b1.failures > FailureThreshold THEN open(b1, t) ELSE b1

onFailureHalfCounts(b, t) ==
    LET b1 == [b EXCEPT !.failures = @ + 1]
    IN  IF b1.failures >= FailureThreshold THEN open(b1, t) ELSE b1

onFailure(b, t) ==
    IF b.state = "HALF"
    THEN open(b, t)
    ELSE LET b1 == [b EXCEPT !.failures = @ + 1]
         IN  IF b1.failures >= FailureThreshold THEN open(b1, t) ELSE b1

\* exec, lines 21-24: an OPEN breaker whose window has elapsed becomes HALF.
halfOpenEarly(b, t) ==
    IF b.state = "OPEN" /\ t - b.openedAt >= HalfOpenAfterMs
    THEN [b EXCEPT !.state = "HALF", !.failures = 0, !.successes = 0]
    ELSE b

halfOpen(b, t) ==
    IF b.state = "OPEN" /\ t - b.openedAt > HalfOpenAfterMs
    THEN [b EXCEPT !.state = "HALF", !.failures = 0, !.successes = 0]
    ELSE b

\* exec, lines 25-26: the two fail-fast checks, on the breaker after halfOpen.
admissionCapOffByOne(b) ==
    IF b.state = "OPEN" THEN "CircuitOpen"
    ELSE IF b.inflight > MaxConcurrent THEN "TooManyRequests"
    ELSE "admitted"

admission(b) ==
    IF b.state = "OPEN" THEN "CircuitOpen"
    ELSE IF b.inflight >= MaxConcurrent THEN "TooManyRequests"
    ELSE "admitted"

\* exec, lines 21-28: the breaker after the synchronous part of exec.
enter(b, t) ==
    LET b1 == halfOpen(b, t)
    IN  IF admission(b1) = "admitted" THEN [b1 EXCEPT !.inflight = @ + 1] ELSE b1

\* exec, lines 35-36 and 40-43: the raced promise resolved.
settleResolved(b) == [onSuccess(b) EXCEPT !.inflight = @ - 1]

\* exec, lines 37-43: the raced promise rejected (fn rejected, or the timer fired).
settleRejectedUncounted(b, t) == [b EXCEPT !.inflight = @ - 1]

settleRejected(b, t) == [onFailure(b, t) EXCEPT !.inflight = @ - 1]

----------------------------------------------------------------------------
(* The registry, the cache and the backends: data. *)

Instances == {"a", "b"}
ObjectClasses == {"user"}
Uids == {"u1", "u2", "u3"}

\* OperationOptions.attributesToGet as callers pass it: absent, or a list of names.
Absent == <<"absent">>
AttrLists ==
    {Absent, <<>>, <<"name">>, <<"name", "name">>, <<"name", "email">>, <<"email", "name">>}

\* The order Array.prototype.sort() puts attribute names in (by UTF-16 code units).
Rank(a) == CASE a = "email" -> 1 [] a = "name" -> 2 [] OTHER -> 0

ReadKinds == {"schema", "get"}
WriteKinds == {"create", "update", "delete", "addAttributeValues", "removeAttributeValues"}
Kinds == ReadKinds \cup WriteKinds

\* The spi objects a factory may build: with or without an `id` property, with or
\* without the UpdateAttributeValuesOp methods.
GetTtl == 30000
SchemaTtl == 300000

IcfOps == {"schema", "get", "create", "update", "delete"}
FactoryKinds == [exposesId : BOOLEAN, caps : {IcfOps, Kinds}]
NoFactory == [exposesId |-> FALSE, caps |-> {"none"}]

Undefined == "undefined"
NoImpl == [id |-> "none", caps |-> {}]

NewFacade(impl) == [made |-> TRUE, impl |-> impl, breaker |-> BreakerInit]
NoFacade == [made |-> FALSE, impl |-> NoImpl, breaker |-> BreakerInit]

\* Values that cross the Facade.  inst, oc, uid, attrs and ver say where a value
\* came from: which backend, which object, which projection, which version.
NullVal == [kind |-> "null", inst |-> "-", oc |-> "-", uid |-> "-", attrs |-> {}, ver |-> 0]
ObjectVal(i, oc, uid, attrs, v) ==
    [kind |-> "object", inst |-> i, oc |-> oc, uid |-> uid, attrs |-> attrs, ver |-> v]
SchemaVal(i) == [NullVal EXCEPT !.kind = "schema", !.inst = i]
DefaultSchema == [NullVal EXCEPT !.kind = "schema"]

NoReturn ==
    [kind |-> "-", inst |-> "-", oc |-> "-", uid |-> "-", outcome |-> "none",
     hit |-> FALSE, val |-> NullVal, pre |-> {}]

\* pre: the cache as the step found it.
Return(kind, i, oc, uid, outcome, hit, val) ==
    [kind |-> kind, inst |-> i, oc |-> oc, uid |-> uid, outcome |-> outcome,
     hit |-> hit, val |-> val, pre |-> cache]

FacadeVarsInit ==
    /\ factories = NoFactory
    /\ instances = [i \in Instances |-> NoImpl]
    /\ facades = [i \in Instances |-> NoFacade]
    /\ cache = {}
    /\ backend = [i \in Instances |-> [oc \in ObjectClasses |-> [u \in Uids |->
                    IF u = "u3" THEN [ver |-> 0, exists |-> FALSE]
                                ELSE [ver |-> 1, exists |-> TRUE]]]]
    /\ ops = EmptyBag
    /\ flast = NoReturn
    /\ committed = [i \in Instances |-> [oc \in ObjectClasses |-> [u \in Uids |->
                    IF u = "u3" THEN 0 ELSE 1]]]

----------------------------------------------------------------------------
(* The remote session (RemoteConnectorService): data. *)

ReconnectInitialDelayMs == 1000
ReconnectMaxDelayMs == 30000

\* Bounds: the WebSockets a run creates, the token fetches under way at once, and
\* where the count of timers armed since the last open stops counting.
MaxSockets == 2
MaxFetching == 2
MaxKth == 7

Socks == 1..MaxSockets

\* this.ws = null; this.reconnectHandle = null.  A handle is known by its timer's delay.
NoSocket == 0
NoHandle == 0

ServiceInit ==
    [ws |-> NoSocket, reconnectDelayMs |-> ReconnectInitialDelayMs, reconnectHandle |-> NoHandle,
     shuttingDown |-> FALSE, started |-> FALSE]

\* readyState of a WebSocket; "none": not created.  aborted: closed before the
\* handshake completed, its 'error' and 'close' queued for the next tick.
\* failed: an 'error' tore the socket down, nothing more is received on it.
NoSock == [state |-> "none", aborted |-> FALSE, failed |-> FALSE]

\* requestId as a frame may carry it: absent, not a string, or a string.
NoRequestId == "absent"
NotAString == "number"
RequestIds == {"", "r1", "r2"}

\* The operations of an operation frame and the payload fields each requires
\* (performOperation); "bogus" stands for any other operation name.
Operations ==
    {"schema", "test", "create", "get", "update", "delete", "search", "sync",
     "addAttributeValues", "removeAttributeValues", "scriptOnConnector"}

Required(op) ==
    CASE op \in {"schema", "test"} -> {}
      [] op = "create" -> {"objectClass", "attrs"}
      [] op \in {"get", "delete"} -> {"objectClass", "uid"}
      [] op \in {"update", "addAttributeValues", "removeAttributeValues"} ->
             {"objectClass", "uid", "attrs"}
      [] op \in {"search", "sync"} -> {"objectClass"}
      [] op = "scriptOnConnector" -> {"context", "context.language", "context.script"}
      [] OTHER -> {}

\* An inbound frame: whether it parses, its type ("absent": none, or not a string;
\* "bogus": any unknown type), its requestId, and for an operation its connectorId,
\* its operation and the one required payload field it lacks, if any.
NoFrame ==
    [json |-> FALSE, type |-> "-", requestId |-> NoRequestId, connectorId |-> "-",
     operation |-> "-", missing |-> "-"]

Frames ==
    {NoFrame}
    \cup {[NoFrame EXCEPT !.json = TRUE, !.type = "absent"]}
    \cup {[NoFrame EXCEPT !.json = TRUE, !.type = t, !.requestId = r] :
             t \in {"ping", "list-connectors", "bogus"},
             r \in {NoRequestId, NotAString} \cup RequestIds}
    \cup {f \in [json : {TRUE}, type : {"operation"},
                 requestId : {NoRequestId, NotAString} \cup RequestIds,
                 connectorId : {"a"}, operation : Operations \cup {"bogus"},
                 missing : {"none", "objectClass", "uid", "attrs", "context",
                            "context.language", "context.script"}] :
             f.missing \in Required(f.operation) \cup {"none"}}

\* An outbound frame; requestId Undefined: the property is left out.
Msg(type, requestId, success) == [type |-> type, requestId |-> requestId, success |-> success]

NoStep ==
    [ev |-> "none", sock |-> NoSocket, pre |-> ServiceInit, preTimers |-> EmptyBag,
     armed |-> FALSE, frame |-> NoFrame, sent |-> <<>>, dispatched |-> FALSE, k |-> 0]

SessionVarsInit ==
    /\ svc = ServiceInit
    /\ timers = EmptyBag
    /\ socks = [s \in Socks |-> NoSock]
    /\ fetching = 0
    /\ pending = {}
    /\ replies = [r \in RequestIds \cup {Undefined} |-> <<>>]
    /\ slast = NoStep
    /\ kth = 0

----------------------------------------------------------------------------
(* The token provider, the registry, the loader, the filters and the        *)
(* streaming search, each modelled on its own: data.                        *)

NoUnit == [unit |-> "none"]

\* Bounds: the callers of getToken, and the tokens the endpoint issues in a run.
NumTokenCallers == 3
MaxIssued == 3

TokenCallers == 1..NumTokenCallers

\* accessToken = null.  Tokens are numbered in the order the endpoint issues them.
NoToken == 0

\* A caller of getToken: idle, awaiting its fetch, or returned.
IdleCaller == [st |-> "idle", got |-> NoToken]

\* OAuthTokenProvider after construction.  fresh: Date.now() + earlyExpiryMs <
\* expiresAt.  last: the step just taken.
OAuthInit ==
    [accessToken |-> NoToken, fresh |-> FALSE, issued |-> 0,
     callers |-> [c \in TokenCallers |-> IdleCaller],
     last |-> [ev |-> "none", caller |-> 0, inflight |-> 0]]

\* Strings the registry takes apart are sequences of characters.  The connector
\* types and versions of initInstance: with and without an "@" inside.
TypeA == <<"a">>
TypeAB == <<"a", "@", "b">>
Version1 == <<"1">>
VersionB1 == <<"b", "@", "1">>
TypeC == <<"c">>
Types == {TypeA, TypeAB}
VersionedTypes == {TypeA, TypeC}
InitVersions == {Version1, VersionB1}

\* The versions of getVersions: those of the registry's test, and 10.0.0.
V100 == <<"1", ".", "0", ".", "0">>
V100beta1 == <<"1", ".", "0", ".", "0", "-", "b", "e", "t", "a", ".", "1">>
V1100 == <<"1", ".", "1", "0", ".", "0">>
V200 == <<"2", ".", "0", ".", "0">>
V1000 == <<"1", "0", ".", "0", ".", "0">>
SemVersions == {V100, V100beta1, V1100, V200, V1000}

\* Bounds: the factories registered in a run, the instances a run makes.
MaxFactories == 3
MaxMade == 2

InstanceIds == {"x", "y"}

\* this.instances.get(id) === undefined.  Instances are numbered as they are made.
NoInstance == 0

\* rawConfig, and what a config builder returns: without or with a validate hook.
ConfigKinds == {"plain", "validated"}

NoCall == [stage |-> "none"]

\* The history of a step that ends no operation.
NoLast ==
    [ev |-> "none", id |-> "-", pair |-> <<>>, cfg |-> "-", trace |-> <<>>,
     pre |-> [i \in InstanceIds |-> NoInstance], known |-> FALSE, result |-> <<>>]

\* ConnectorRegistry after construction.  keys: the factories Map's keys in
\* insertion order; pairs (history): the (type, version) pairs registered; call: the
\* initInstance in progress; last (history): how the latest operation ended.
RegistryInit ==
    [keys |-> <<>>, pairs |-> {}, builders |-> {},
     instances |-> [i \in InstanceIds |-> NoInstance], made |-> 0,
     call |-> NoCall, last |-> NoLast]

UnitVarsInit ==
    /\ oauth = NoUnit
    /\ registry = NoUnit
    /\ loader = NoUnit
    /\ filter = NoUnit
    /\ search = NoUnit
    /\ auth = NoUnit
    /\ http = NoUnit

----------------------------------------------------------------------------
(* The breaker driven directly: exec(fn) with an arbitrary fn. *)

IdleCall == [status |-> "idle", startedAt |-> 0, old |-> FALSE]

Running(cs) == {c \in Calls : cs[c].status = "running"}

\* A timer armed at exec (line 33) is due.
TimerDue(cl, t) == cl.status = "running" /\ t - cl.startedAt >= TimeoutMs

NoEvent ==
    [ev |-> "none", call |-> 0, outcome |-> "none", pre |-> BreakerInit, at |-> 0,
     running |-> {}, old |-> FALSE]

Event(e, c, o) ==
    [ev |-> e, call |-> c, outcome |-> o, pre |-> cb, at |-> now, running |-> Running(calls),
     old |-> IF c \in Calls THEN calls[c].old ELSE FALSE]

\* History: when a step takes the breaker from another state to OPEN, the calls
\* still running are marked as admitted before that transition.
Aged(b, cs) ==
    IF cb.state # "OPEN" /\ b.state = "OPEN"
    THEN [c \in Calls |-> IF cs[c].status = "running" THEN [cs[c] EXCEPT !.old = TRUE]
                          ELSE cs[c]]
    ELSE cs

\* The history variables after a step that takes the breaker from cb to b.
\* kind: "exec", "ok" (a call settled successfully) or "fail" (it failed or timed out).
History(kind, b, admitted, c) ==
    /\ win' = IF kind = "ok" THEN (IF b.state = "CLOSED" THEN 0 ELSE -1)
              ELSE IF kind = "fail" /\ win >= 0 THEN Min(win + 1, FailureThreshold + 1)
              ELSE win
    /\ openTime' = IF cb.state # "OPEN" /\ b.state = "OPEN" THEN now ELSE openTime
    /\ halfSucc' = IF cb.state # "HALF" /\ b.state = "HALF" THEN 0
                   ELSE IF kind = "ok" /\ cb.state = "HALF"
                        THEN Min(halfSucc + 1, SuccessThreshold + 1)
                   ELSE halfSucc
    /\ probe' = IF cb.state = "OPEN" /\ b.state = "HALF" /\ admitted THEN c
                ELSE IF kind # "exec" /\ c = probe THEN 0
                ELSE probe

BreakerInitState ==
    /\ now = 0
    /\ cb = BreakerInit
    /\ calls = [c \in Calls |-> IdleCall]
    /\ last = NoEvent
    /\ win = 0
    /\ openTime = 0
    /\ halfSucc = 0
    /\ probe = 0
    /\ FacadeVarsInit
    /\ SessionVarsInit
    /\ UnitVarsInit

\* exec(fn), lines 20-33: admitted, fn is invoked and the timer armed.
ExecAdmitted ==
    /\ admission(halfOpen(cb, now)) = "admitted"
    /\ \E c \in Calls :
        /\ calls[c].status = "idle"
        /\ \A d \in Calls : calls[d].status = "idle" => c <= d
        /\ cb' = enter(cb, now)
        /\ calls' = [calls EXCEPT ![c] = [status |-> "running", startedAt |-> now,
                                         old |-> FALSE]]
        /\ last' = Event("exec", c, "admitted")
        /\ History("exec", enter(cb, now), TRUE, c)
    /\ UNCHANGED now
    /\ UNCHANGED fvars
    /\ UNCHANGED <<svars, uvars>>

\* exec(fn), lines 20-26: rejected, fn is not invoked.
ExecRejected ==
    /\ admission(halfOpen(cb, now)) # "admitted"
    /\ cb' = enter(cb, now)
    /\ last' = Event("exec", 0, admission(halfOpen(cb, now)))
    /\ History("exec", enter(cb, now), FALSE, 0)
    /\ UNCHANGED <<now, calls>>
    /\ UNCHANGED fvars
    /\ UNCHANGED <<svars, uvars>>

\* fn() resolved before the timer fired.
FnResolves(c) ==
    /\ calls[c].status = "running"
    /\ ~TimerDue(calls[c], now)
    /\ cb' = settleResolved(cb)
    /\ calls' = [calls EXCEPT ![c] = IdleCall]
    /\ last' = Event("ok", c, "ok")
    /\ History("ok", settleResolved(cb), FALSE, c)
    /\ UNCHANGED now
    /\ UNCHANGED fvars
    /\ UNCHANGED <<svars, uvars>>

\* fn() rejected (or threw) before the timer fired.
FnRejects(c) ==
    /\ calls[c].status = "running"
    /\ ~TimerDue(calls[c], now)
    /\ cb' = settleRejected(cb, now)
    /\ calls' = Aged(settleRejected(cb, now), [calls EXCEPT ![c] = IdleCall])
    /\ last' = Event("fail", c, "error")
    /\ History("fail", settleRejected(cb, now), FALSE, c)
    /\ UNCHANGED now
    /\ UNCHANGED fvars
    /\ UNCHANGED <<svars, uvars>>

\* The timer fired first: the race rejects with BreakerTimeout; fn keeps running.
TimerFires(c) ==
    /\ TimerDue(calls[c], now)
    /\ cb' = settleRejected(cb, now)
    /\ calls' = Aged(settleRejected(cb, now), [calls EXCEPT ![c].status = "orphan"])
    /\ last' = Event("timeout", c, "BreakerTimeout")
    /\ History("fail", settleRejected(cb, now), FALSE, c)
    /\ UNCHANGED now
    /\ UNCHANGED fvars
    /\ UNCHANGED <<svars, uvars>>

\* fn() settles after its race was lost: nobody listens.
OrphanSettles(c) ==
    /\ calls[c].status = "orphan"
    /\ calls' = [calls EXCEPT ![c] = IdleCall]
    /\ UNCHANGED <<now, cb, last, win, openTime, halfSucc, probe>>
    /\ UNCHANGED fvars
    /\ UNCHANGED <<svars, uvars>>

\* The clock advances, unless a timer is due.
BreakerTick ==
    /\ now < MaxTime
    /\ \A c \in Calls : ~TimerDue(calls[c], now)
    /\ now' = now + 1
    /\ UNCHANGED <<cb, calls, last, win, openTime, halfSucc, probe>>
    /\ UNCHANGED fvars
    /\ UNCHANGED <<svars, uvars>>

BreakerNext ==
    \/ ExecAdmitted
    \/ ExecRejected
    \/ \E c \in Calls : FnResolves(c)
    \/ \E c \in Calls : FnRejects(c)
    \/ \E c \in Calls : TimerFires(c)
    \/ \E c \in Calls : OrphanSettles(c)
    \/ BreakerTick

SpecBreaker == BreakerInitState /\ [][BreakerNext]_vars

----------------------------------------------------------------------------
(* The cache and its keys *)

\* JSON.stringify of a string: its text between double quotes.  Keys are
\* sequences of tokens; the text of a string is one token.
Str(x) == <<"\"", x, "\"">>

RECURSIVE join(_, _)
join(parts, sep) ==
    IF parts = <<>> THEN <<>>
    ELSE IF Len(parts) = 1 THEN parts[1]
    ELSE parts[1] \o <<sep>> \o join(Tail(parts), sep)

\* JSON.stringify of an array of strings.
Arr(xs) == <<"[">> \o join([n \in 1..Len(xs) |-> Str(xs[n])], ",") \o <<"]">>

\* key(parts), on parts already stringified.
key(parts) == join(parts, "|")

startsWith(k, prefix) == Len(prefix) <= Len(k) /\ SubSeq(k, 1, Len(prefix)) = prefix

\* options?.attributesToGet?.slice().sort() || []
sortedAttrs(opts) ==
    IF opts = Absent THEN <<>> ELSE SortSeq(opts, LAMBDA x, y : Rank(x) < Rank(y))

connectorId(impl) == IF impl.id = Undefined THEN "anon" ELSE impl.id

schemaParts(impl) == <<Str("schema"), Str(connectorId(impl))>>
getParts(impl, oc) == <<Str("get"), Str(connectorId(impl)), Str(oc)>>
getUidParts(impl, oc, uid) == getParts(impl, oc) \o <<Str(uid)>>
getKey(impl, oc, uid, opts) == key(getUidParts(impl, oc, uid) \o <<Arr(sortedAttrs(opts))>>)

\* lru-cache with allowStale: false: an entry is readable, and listed by keys(),
\* while no more than its ttl has passed since it was set.
live(e, t) == t - e.start <= e.ttl
cacheHas(c, k, t) == \E e \in c : e.key = k /\ live(e, t)
cacheGet(c, k) == (CHOOSE e \in c : e.key = k).val
cacheSet(c, k, v, ttl, t) ==
    {e \in c : e.key # k} \cup {[key |-> k, val |-> v, start |-> t, ttl |-> ttl]}

invalidateExact(c, parts, t) == {e \in c : ~(live(e, t) /\ e.key = key(parts))}

\* ConnectorFacade.invalidateCache
invalidateCache(c, parts, t) == {e \in c : ~(live(e, t) /\ startsWith(e.key, key(parts)))}

\* create, lines 42-44
afterCreateSchemaOnly(c, impl, oc, t) == invalidateCache(c, schemaParts(impl), t)

afterCreate(c, impl, oc, t) ==
    invalidateCache(invalidateCache(c, schemaParts(impl), t), getParts(impl, oc), t)

\* update and delete, lines 60-61 and 68-69
afterWrite(c, impl, oc, uid, t) == invalidateCache(c, getUidParts(impl, oc, uid), t)

\* The cache after the Facade's continuation of a call that succeeded with value v.
afterSuccess(c, op, impl, v, t) ==
    CASE op.kind = "schema" -> cacheSet(c, key(schemaParts(impl)), v, SchemaTtl, t)
      [] op.kind = "get" ->
            IF v.kind # "null"
            THEN cacheSet(c, getKey(impl, op.oc, op.uid, op.opts), v, GetTtl, t)
            ELSE c
      [] op.kind = "create" -> afterCreate(c, impl, op.oc, t)
      [] op.kind \in {"update", "delete"} ->
            afterWrite(c, impl, op.oc, op.uid, t)
      [] OTHER -> c

----------------------------------------------------------------------------
(* The registry and the Facades.                                           *)
(*                                                                         *)
(* Here durations are left open: how long a backend takes and when calls   *)
(* arrive is up to the environment.  The clock stays put and time passing  *)
(* shows as a timestamp having grown old: a breaker's openedAt             *)
(* (WindowElapses), a cache entry's start (EntryExpires); the race of a    *)
(* call against its timer can go either way (CallTimesOut).                *)
(***************************************************************************)

\* registerFactory: the loader registers the connector's factory once.
RegisterFactory(f) ==
    /\ factories = NoFactory
    /\ factories' = f
    /\ UNCHANGED <<now, instances, facades, cache, backend, ops, committed>>
    /\ flast' = NoReturn
    /\ UNCHANGED bvars
    /\ UNCHANGED <<svars, uvars>>

\* initInstance: the factory builds the spi; the registry stores it as the impl.
InitInstance(i) ==
    /\ factories # NoFactory
    /\ instances[i] = NoImpl
    /\ instances' = [instances EXCEPT ![i] =
            [id |-> IF factories.exposesId THEN i ELSE Undefined, caps |-> factories.caps]]
    /\ UNCHANGED <<now, factories, facades, cache, backend, ops, committed>>
    /\ flast' = NoReturn
    /\ UNCHANGED bvars
    /\ UNCHANGED <<svars, uvars>>

\* getFacade: the Facade of the session's map, made from the registry on first use.
FacadeOf(i) == IF facades[i].made THEN facades[i] ELSE NewFacade(instances[i])

Supported(kind, impl) == kind = "schema" \/ kind \in impl.caps

KeyOf(c, impl) ==
    IF c.kind = "schema" THEN key(schemaParts(impl)) ELSE getKey(impl, c.oc, c.uid, c.opts)

Hit(c, impl) == c.kind \in ReadKinds /\ cacheHas(cache, KeyOf(c, impl), now)

\* The calls of the Facade's methods, with the arguments each takes.
AllCalls ==
    {c \in [kind : Kinds, inst : Instances, oc : ObjectClasses \cup {"-"},
            uid : Uids \cup {"-"}, opts : AttrLists] :
        /\ (c.oc = "-") = (c.kind = "schema")
        /\ (c.uid = "-") = (c.kind \in {"schema", "create"})
        /\ (c.kind # "get") => c.opts = Absent}

InFlight == BagToSet(ops)

Replace(bag, old, new) == (bag (-) SetToBag({old})) (+) SetToBag({new})

\* A Facade method that throws "... not supported" before anything else.
CallNotSupported(c) ==
    /\ instances[c.inst] # NoImpl
    /\ ~Supported(c.kind, FacadeOf(c.inst).impl)
    /\ facades' = [facades EXCEPT ![c.inst] = FacadeOf(c.inst)]
    /\ flast' = Return(c.kind, c.inst, c.oc, c.uid, "NotSupported", FALSE, NullVal)
    /\ UNCHANGED <<now, factories, instances, cache, backend, ops, committed>>
    /\ UNCHANGED bvars
    /\ UNCHANGED <<svars, uvars>>

\* schema() or get() answered from the cache.
CallHit(c) ==
    /\ instances[c.inst] # NoImpl
    /\ Supported(c.kind, FacadeOf(c.inst).impl)
    /\ Hit(c, FacadeOf(c.inst).impl)
    /\ facades' = [facades EXCEPT ![c.inst] = FacadeOf(c.inst)]
    /\ flast' = Return(c.kind, c.inst, c.oc, c.uid, "ok", TRUE,
                       cacheGet(cache, KeyOf(c, FacadeOf(c.inst).impl)))
    /\ UNCHANGED <<now, factories, instances, cache, backend, ops, committed>>
    /\ UNCHANGED bvars
    /\ UNCHANGED <<svars, uvars>>

\* The breaker rejects the call: CircuitOpen or TooManyRequests.
CallRejected(c) ==
    /\ instances[c.inst] # NoImpl
    /\ Supported(c.kind, FacadeOf(c.inst).impl)
    /\ ~Hit(c, FacadeOf(c.inst).impl)
    /\ admission(halfOpen(FacadeOf(c.inst).breaker, now)) # "admitted"
    /\ facades' = [facades EXCEPT ![c.inst] =
            [FacadeOf(c.inst) EXCEPT !.breaker = enter(FacadeOf(c.inst).breaker, now)]]
    /\ flast' = Return(c.kind, c.inst, c.oc, c.uid,
                       admission(halfOpen(FacadeOf(c.inst).breaker, now)), FALSE, NullVal)
    /\ UNCHANGED <<now, factories, instances, cache, backend, ops, committed>>
    /\ UNCHANGED bvars
    /\ UNCHANGED <<svars, uvars>>

\* The breaker admits the call: the impl's method is invoked.
\* cap: how many calls the Facades' callers keep going at once.
CallAdmitted(c, cap) ==
    /\ instances[c.inst] # NoImpl
    /\ Supported(c.kind, FacadeOf(c.inst).impl)
    /\ ~Hit(c, FacadeOf(c.inst).impl)
    /\ admission(halfOpen(FacadeOf(c.inst).breaker, now)) = "admitted"
    /\ BagCardinality(ops) < cap
    /\ ops' = ops (+) SetToBag({[phase |-> "called", call |-> c, ok |-> FALSE, res |-> NullVal, wrote |-> 0]})
    /\ facades' = [facades EXCEPT ![c.inst] =
            [FacadeOf(c.inst) EXCEPT !.breaker = enter(FacadeOf(c.inst).breaker, now)]]
    /\ UNCHANGED <<now, factories, instances, cache, backend, committed>>
    /\ flast' = NoReturn
    /\ UNCHANGED bvars
    /\ UNCHANGED <<svars, uvars>>

Racing(op) == op.phase \in {"called", "acted"}
Pending(op) == op.phase \in {"called", "orphanCalled"}
\* wrote: the version the backend wrote for the call (history; 0 for none).
Acted(op, ok, v, w) ==
    [op EXCEPT !.phase = IF op.phase = "called" THEN "acted" ELSE "orphanActed",
               !.ok = ok, !.res = v, !.wrote = w]

AttrSet(opts) == IF opts = Absent THEN {} ELSE {opts[n] : n \in 1..Len(opts)}

\* The backend serves a read.
ImplReads(op) ==
    /\ Pending(op)
    /\ op.call.kind \in ReadKinds
    /\ LET c == op.call
           v == IF c.kind = "schema"
                THEN (IF "schema" \in instances[c.inst].caps THEN SchemaVal(c.inst)
                      ELSE DefaultSchema)
                ELSE IF backend[c.inst][c.oc][c.uid].exists
                     THEN ObjectVal(c.inst, c.oc, c.uid, AttrSet(c.opts),
                                    backend[c.inst][c.oc][c.uid].ver)
                     ELSE NullVal
       IN  ops' = Replace(ops, op, Acted(op, TRUE, v, 0))
    /\ UNCHANGED <<now, factories, instances, facades, cache, backend, committed>>
    /\ flast' = NoReturn
    /\ UNCHANGED bvars
    /\ UNCHANGED <<svars, uvars>>

\* The backend applies a write to an object that exists.
ImplWrites(op) ==
    /\ Pending(op)
    /\ op.call.kind \in WriteKinds \ {"create"}
    /\ LET c == op.call
           obj == backend[c.inst][c.oc][c.uid]
       IN  /\ obj.exists
           /\ obj.ver < MaxVer
           /\ backend' = [backend EXCEPT ![c.inst][c.oc][c.uid] =
                    [ver |-> obj.ver + 1, exists |-> c.kind # "delete"]]
           /\ ops' = Replace(ops, op, Acted(op, TRUE,
                        IF c.kind = "delete" THEN NullVal
                        ELSE ObjectVal(c.inst, c.oc, c.uid, {}, obj.ver + 1), obj.ver + 1))
    /\ UNCHANGED <<now, factories, instances, facades, cache, committed>>
    /\ flast' = NoReturn
    /\ UNCHANGED bvars
    /\ UNCHANGED <<svars, uvars>>

\* The backend creates an object under a uid that is free.
ImplCreates(op) ==
    /\ Pending(op)
    /\ op.call.kind = "create"
    /\ \E u \in Uids :
        LET c == op.call
            obj == backend[c.inst][c.oc][u]
        IN  /\ ~obj.exists
            /\ obj.ver < MaxVer
            /\ backend' = [backend EXCEPT ![c.inst][c.oc][u] =
                    [ver |-> obj.ver + 1, exists |-> TRUE]]
            /\ ops' = Replace(ops, op, Acted(op, TRUE, ObjectVal(c.inst, c.oc, u, {}, obj.ver + 1),
                                           obj.ver + 1))
    /\ UNCHANGED <<now, factories, instances, facades, cache, committed>>
    /\ flast' = NoReturn
    /\ UNCHANGED bvars
    /\ UNCHANGED <<svars, uvars>>

\* The impl's method fails: nothing is applied.
ImplFails(op) ==
    /\ Pending(op)
    /\ ops' = Replace(ops, op, Acted(op, FALSE, NullVal, 0))
    /\ UNCHANGED <<now, factories, instances, facades, cache, backend, committed>>
    /\ flast' = NoReturn
    /\ UNCHANGED bvars
    /\ UNCHANGED <<svars, uvars>>

\* The impl's promise resolves first: breaker.onSuccess, then the method's continuation.
CallResolves(op) ==
    /\ op.phase = "acted"
    /\ op.ok
    /\ LET c == op.call
           f == facades[c.inst]
       IN  /\ facades' = [facades EXCEPT ![c.inst].breaker = settleResolved(f.breaker)]
           /\ cache' = afterSuccess(cache, c, f.impl, op.res, now)
           /\ flast' = Return(c.kind, c.inst, c.oc, c.uid, "ok", FALSE, op.res)
           /\ committed' = IF op.wrote = 0 THEN committed
                            ELSE LET u == IF c.kind = "create" THEN op.res.uid ELSE c.uid
                                 IN  [committed EXCEPT ![c.inst][c.oc][u] = Max(@, op.wrote)]
    /\ ops' = ops (-) SetToBag({op})
    /\ UNCHANGED <<now, factories, instances, backend>>
    /\ UNCHANGED bvars
    /\ UNCHANGED <<svars, uvars>>

CallRejectsInvalidating(op) ==
    /\ op.phase = "acted"
    /\ ~op.ok
    /\ LET c == op.call
           f == facades[c.inst]
       IN  /\ facades' = [facades EXCEPT ![c.inst].breaker = settleRejected(f.breaker, now)]
           /\ cache' = IF c.kind \in WriteKinds THEN afterSuccess(cache, c, f.impl, NullVal, now)
                       ELSE cache
           /\ flast' = Return(c.kind, c.inst, c.oc, c.uid, "error", FALSE, NullVal)
    /\ ops' = ops (-) SetToBag({op})
    /\ UNCHANGED <<now, factories, instances, backend, committed>>
    /\ UNCHANGED bvars
    /\ UNCHANGED <<svars, uvars>>

\* The impl's promise rejects first: breaker.onFailure, the method rethrows.
CallRejects(op) ==
    /\ op.phase = "acted"
    /\ ~op.ok
    /\ LET c == op.call
           f == facades[c.inst]
       IN  /\ facades' = [facades EXCEPT ![c.inst].breaker = settleRejected(f.breaker, now)]
           /\ flast' = Return(c.kind, c.inst, c.oc, c.uid, "error", FALSE, NullVal)
    /\ ops' = ops (-) SetToBag({op})
    /\ UNCHANGED <<now, factories, instances, cache, backend, committed>>
    /\ UNCHANGED bvars
    /\ UNCHANGED <<svars, uvars>>

\* The breaker's timer fires first: the method throws BreakerTimeout; the impl goes on.
CallTimesOut(op) ==
    /\ Racing(op)
    /\ LET c == op.call
           f == facades[c.inst]
       IN  /\ facades' = [facades EXCEPT ![c.inst].breaker = settleRejected(f.breaker, now)]
           /\ flast' = Return(c.kind, c.inst, c.oc, c.uid, "BreakerTimeout", FALSE, NullVal)
    /\ ops' = Replace(ops, op,
                [op EXCEPT !.phase = IF op.phase = "called" THEN "orphanCalled" ELSE "orphanActed"])
    /\ UNCHANGED <<now, factories, instances, cache, backend, committed>>
    /\ UNCHANGED bvars
    /\ UNCHANGED <<svars, uvars>>

\* The impl's promise settles after the race was lost: nobody listens.
OrphanOpSettles(op) ==
    /\ op.phase = "orphanActed"
    /\ ops' = ops (-) SetToBag({op})
    /\ UNCHANGED <<now, factories, instances, facades, cache, backend, committed>>
    /\ flast' = NoReturn
    /\ UNCHANGED bvars
    /\ UNCHANGED <<svars, uvars>>

\* More than halfOpenAfterMs go by since a Facade's breaker opened.
WindowElapses(i) ==
    /\ facades[i].made
    /\ facades[i].breaker.state = "OPEN"
    /\ now - facades[i].breaker.openedAt <= HalfOpenAfterMs
    /\ facades' = [facades EXCEPT ![i].breaker.openedAt = now - HalfOpenAfterMs - 1]
    /\ UNCHANGED <<now, factories, instances, cache, backend, ops, committed>>
    /\ flast' = NoReturn
    /\ UNCHANGED bvars
    /\ UNCHANGED <<svars, uvars>>

\* More than its ttl goes by since a cache entry was set: has() and get() no longer
\* find it, keys() no longer lists it and set() replaces it, as if it were gone.
EntryExpires(e) ==
    /\ e \in cache
    /\ cache' = cache \ {e}
    /\ UNCHANGED <<now, factories, instances, facades, backend, ops, committed>>
    /\ flast' = NoReturn
    /\ UNCHANGED bvars
    /\ UNCHANGED <<svars, uvars>>

FacadeInit ==
    /\ now = 0
    /\ cb = BreakerInit
    /\ calls = [c \in Calls |-> IdleCall]
    /\ last = NoEvent
    /\ win = 0
    /\ openTime = 0
    /\ halfSucc = 0
    /\ probe = 0
    /\ FacadeVarsInit
    /\ SessionVarsInit
    /\ UnitVarsInit

\* SpecFacade: one instance, one object, a caller that awaits each call;
\* every method but schema and create.
FacadeFactories == {f \in FactoryKinds : ~f.exposesId /\ f.caps = Kinds}
FacadeCalls ==
    {c \in AllCalls : /\ c.inst = "a" /\ c.uid = "u1" /\ c.kind \notin {"schema", "create"}
                      /\ c.opts \in {Absent, <<"name", "email">>}}

FacadeNext ==
    \/ \E f \in FacadeFactories : RegisterFactory(f)
    \/ InitInstance("a")
    \/ \E c \in FacadeCalls : CallHit(c)
    \/ \E c \in FacadeCalls : CallRejected(c)
    \/ \E c \in FacadeCalls : CallAdmitted(c, OneCaller)
    \/ \E op \in InFlight : ImplReads(op)
    \/ \E op \in InFlight : ImplWrites(op)
    \/ \E op \in InFlight : ImplFails(op)
    \/ \E op \in InFlight : CallResolves(op)
    \/ \E op \in InFlight : CallRejects(op)
    \/ \E op \in InFlight : CallTimesOut(op)
    \/ \E op \in InFlight : OrphanOpSettles(op)
    \/ WindowElapses("a")
    \/ \E e \in cache : EntryExpires(e)

SpecFacade == FacadeInit /\ [][FacadeNext]_vars

\* SpecRace: get and update of one object, NumOps calls at once.
RaceCalls ==
    {c \in AllCalls : /\ c.inst = "a" /\ c.uid = "u1" /\ c.kind \in {"get", "update"}
                      /\ c.opts = Absent}

RaceNext ==
    \/ \E f \in FacadeFactories : RegisterFactory(f)
    \/ InitInstance("a")
    \/ \E c \in RaceCalls : CallHit(c)
    \/ \E c \in RaceCalls : CallRejected(c)
    \/ \E c \in RaceCalls : CallAdmitted(c, NumOps)
    \/ \E op \in InFlight : ImplReads(op)
    \/ \E op \in InFlight : ImplWrites(op)
    \/ \E op \in InFlight : ImplFails(op)
    \/ \E op \in InFlight : CallResolves(op)
    \/ \E op \in InFlight : CallRejects(op)
    \/ \E op \in InFlight : CallTimesOut(op)
    \/ \E op \in InFlight : OrphanOpSettles(op)
    \/ WindowElapses("a")
    \/ \E e \in cache : EntryExpires(e)

SpecRace == FacadeInit /\ [][RaceNext]_vars

\* SpecWrites: get, create, update and delete around one object, NumOps calls at once.
WriteCalls ==
    {c \in AllCalls : /\ c.inst = "a" /\ c.uid \in {"-", "u1"} /\ c.opts = Absent
                      /\ c.kind \in {"get", "create", "update", "delete"}}

WritesNext ==
    \/ \E f \in FacadeFactories : RegisterFactory(f)
    \/ InitInstance("a")
    \/ \E c \in WriteCalls : CallHit(c)
    \/ \E c \in WriteCalls : CallRejected(c)
    \/ \E c \in WriteCalls : CallAdmitted(c, NumOps)
    \/ \E op \in InFlight : ImplReads(op)
    \/ \E op \in InFlight : ImplWrites(op)
    \/ \E op \in InFlight : ImplCreates(op)
    \/ \E op \in InFlight : ImplFails(op)
    \/ \E op \in InFlight : CallResolves(op)
    \/ \E op \in InFlight : CallRejects(op)
    \/ \E op \in InFlight : CallTimesOut(op)
    \/ \E op \in InFlight : OrphanOpSettles(op)
    \/ WindowElapses("a")
    \/ \E e \in cache : EntryExpires(e)

SpecWrites == FacadeInit /\ [][WritesNext]_vars

\* SpecProjection: gets of one object under every attributesToGet, a caller that
\* awaits each call.
ProjectionCalls == {c \in AllCalls : c.inst = "a" /\ c.uid = "u1" /\ c.kind = "get"}

ProjectionNext ==
    \/ \E f \in FacadeFactories : RegisterFactory(f)
    \/ InitInstance("a")
    \/ \E c \in ProjectionCalls : CallHit(c)
    \/ \E c \in ProjectionCalls : CallRejected(c)
    \/ \E c \in ProjectionCalls : CallAdmitted(c, OneCaller)
    \/ \E op \in InFlight : ImplReads(op)
    \/ \E op \in InFlight : ImplFails(op)
    \/ \E op \in InFlight : CallResolves(op)
    \/ \E op \in InFlight : CallRejects(op)
    \/ \E op \in InFlight : CallTimesOut(op)
    \/ \E op \in InFlight : OrphanOpSettles(op)
    \/ WindowElapses("a")
    \/ \E e \in cache : EntryExpires(e)

SpecProjection == FacadeInit /\ [][ProjectionNext]_vars

\* SpecCreate: schema, get and create on one instance, a caller that awaits each call.
CreateCalls ==
    {c \in AllCalls : /\ c.inst = "a" /\ c.uid # "u3" /\ c.kind \in {"schema", "get", "create"}
                      /\ c.opts \in {Absent, <<"name", "email">>}}

CreateNext ==
    \/ \E f \in FacadeFactories : RegisterFactory(f)
    \/ InitInstance("a")
    \/ \E c \in CreateCalls : CallHit(c)
    \/ \E c \in CreateCalls : CallRejected(c)
    \/ \E c \in CreateCalls : CallAdmitted(c, OneCaller)
    \/ \E op \in InFlight : ImplReads(op)
    \/ \E op \in InFlight : ImplCreates(op)
    \/ \E op \in InFlight : ImplFails(op)
    \/ \E op \in InFlight : CallResolves(op)
    \/ \E op \in InFlight : CallRejects(op)
    \/ \E op \in InFlight : CallTimesOut(op)
    \/ \E op \in InFlight : OrphanOpSettles(op)
    \/ WindowElapses("a")
    \/ \E e \in cache : EntryExpires(e)

SpecCreate == FacadeInit /\ [][CreateNext]_vars

\* SpecRegistry: two instances of one connector, each behind its Facade; reads, and
\* a method the connector lacks.  The factory's spi may or may not carry an id.
RegistryFactories == {f \in FactoryKinds : f.caps = IcfOps}
RegistryCalls ==
    {c \in AllCalls : /\ c.uid \in {"-", "u1"} /\ c.opts = Absent
                      /\ c.kind \in {"schema", "get", "addAttributeValues"}}

RegistryNext ==
    \/ \E f \in RegistryFactories : RegisterFactory(f)
    \/ \E i \in Instances : InitInstance(i)
    \/ \E c \in RegistryCalls : CallNotSupported(c)
    \/ \E c \in RegistryCalls : CallHit(c)
    \/ \E c \in RegistryCalls : CallRejected(c)
    \/ \E c \in RegistryCalls : CallAdmitted(c, OneCaller)
    \/ \E op \in InFlight : ImplReads(op)
    \/ \E op \in InFlight : ImplFails(op)
    \/ \E op \in InFlight : CallResolves(op)
    \/ \E op \in InFlight : CallRejects(op)
    \/ \E op \in InFlight : CallTimesOut(op)
    \/ \E op \in InFlight : OrphanOpSettles(op)
    \/ \E i \in Instances : WindowElapses(i)
    \/ \E e \in cache : EntryExpires(e)

SpecRegistry == FacadeInit /\ [][RegistryNext]_vars

----------------------------------------------------------------------------
(* The remote session: connection, reconnect, shutdown.                     *)
(*                                                                         *)
(* The WebSocket library and the token endpoint are the environment.  A    *)
(* socket emits 'open' or 'unexpected-response' while CONNECTING, 'error'  *)
(* with readyState already CLOSING, and 'close' once, last.  A socket       *)
(* closed before its handshake completed emits 'error' and 'close' on the  *)
(* next tick, ahead of any timer.                                           *)
(***************************************************************************)

ScheduledWhilePending(s) == ~s.shuttingDown

\* scheduleReconnect, lines 219-220: whether it goes on to arm a timer.
Scheduled(s) == ~s.shuttingDown /\ s.reconnectHandle = NoHandle

\* scheduleReconnect: the service after it, and the timers after it.
scheduleReconnect(s) ==
    IF Scheduled(s) THEN [s EXCEPT !.reconnectHandle = s.reconnectDelayMs] ELSE s

arm(s, tm) == IF Scheduled(s) THEN tm (+) SetToBag({s.reconnectDelayMs}) ELSE tm

backoffUncapped(s) ==
    [s EXCEPT !.reconnectHandle = NoHandle, !.reconnectDelayMs = 2 * @]

\* The timer's callback, lines 224-225.
backoff(s) ==
    [s EXCEPT !.reconnectHandle = NoHandle,
              !.reconnectDelayMs = Min(2 * @, ReconnectMaxDelayMs)]

onOpenKeepsDelay(s) == s

\* ws.on("open"), line 187.
onOpen(s) == [s EXCEPT !.reconnectDelayMs = ReconnectInitialDelayMs]

\* send: the frames that go out, none unless this.ws is OPEN.
send(s, sk, msg) ==
    IF s.ws # NoSocket /\ sk[s.ws].state = "OPEN" THEN <<msg>> ELSE <<>>

\* History: the step just taken, with the service and the timers as it found them.
Step(ev, sock, armed, frame, sent, dispatched, k) ==
    [ev |-> ev, sock |-> sock, pre |-> svc, preTimers |-> timers, armed |-> armed,
     frame |-> frame, sent |-> sent, dispatched |-> dispatched, k |-> k]

Count(armed) == IF armed THEN Min(kth + 1, MaxKth) ELSE kth

\* The steps that schedule: the service, the timers and the history after them.
Trigger(ev, sock, s) ==
    /\ svc' = scheduleReconnect(s)
    /\ timers' = arm(s, timers)
    /\ kth' = Count(Scheduled(s))
    /\ slast' = Step(ev, sock, Scheduled(s), NoFrame, <<>>, FALSE, Count(Scheduled(s)))

\* No connection attempt is made.
openConnectionSkipped(s, n) == n

\* openConnection up to its await: nothing when shutting down, else a token fetch.
openConnection(s, n) == IF s.shuttingDown THEN n ELSE n + 1

\* start(): populateFacades, then openConnection.
Start ==
    /\ ~svc.started
    /\ openConnection(svc, fetching) <= MaxFetching
    /\ svc' = [svc EXCEPT !.started = TRUE]
    /\ facades' = [i \in Instances |->
                      IF instances[i] # NoImpl THEN NewFacade(instances[i]) ELSE facades[i]]
    /\ fetching' = openConnection(svc, fetching)
    /\ slast' = Step("start", NoSocket, FALSE, NoFrame, <<>>, FALSE, kth)
    /\ UNCHANGED <<timers, socks, pending, replies, kth>>
    /\ UNCHANGED <<now, factories, instances, cache, backend, ops, flast, committed>>
    /\ UNCHANGED <<bvars, uvars>>

\* shutdown()
Shutdown ==
    /\ svc' = [svc EXCEPT !.shuttingDown = TRUE, !.reconnectHandle = NoHandle]
    /\ timers' = IF svc.reconnectHandle # NoHandle
                 THEN timers (-) SetToBag({svc.reconnectHandle}) ELSE timers
    /\ socks' = IF svc.ws # NoSocket /\ socks[svc.ws].state = "OPEN"
                THEN [socks EXCEPT ![svc.ws].state = "CLOSING"] ELSE socks
    /\ slast' = Step("shutdown", svc.ws, FALSE, NoFrame, <<>>, FALSE, kth)
    /\ UNCHANGED <<fetching, pending, replies, kth>>
    /\ UNCHANGED <<now, bvars, fvars, uvars>>

\* getToken() resolves: establishWebSocket creates a socket and stores it in this.ws.
TokenResolves(k) ==
    /\ fetching > 0
    /\ socks[k].state = "none"
    /\ \A j \in Socks : j < k => socks[j].state # "none"
    /\ fetching' = fetching - 1
    /\ socks' = [socks EXCEPT ![k].state = "CONNECTING"]
    /\ svc' = [svc EXCEPT !.ws = k]
    /\ slast' = Step("connect", k, FALSE, NoFrame, <<>>, FALSE, kth)
    /\ UNCHANGED <<timers, pending, replies, kth>>
    /\ UNCHANGED <<now, bvars, fvars, uvars>>

\* getToken() rejects: the catch of openConnection schedules a reconnect.
TokenFails ==
    /\ fetching > 0
    /\ fetching' = fetching - 1
    /\ Trigger("tokenFailure", NoSocket, svc)
    /\ UNCHANGED <<socks, pending, replies>>
    /\ UNCHANGED <<now, bvars, fvars, uvars>>

\* 'open': the delay is reset and service-info is sent.
SocketOpens(k) ==
    /\ socks[k].state = "CONNECTING"
    /\ socks' = [socks EXCEPT ![k].state = "OPEN"]
    /\ svc' = onOpen(svc)
    /\ kth' = 0
    /\ slast' = Step("open", k, FALSE, NoFrame,
                     send(svc, socks', Msg("service-info", Undefined, "-")), FALSE, 0)
    /\ UNCHANGED <<timers, fetching, pending, replies>>
    /\ UNCHANGED <<now, bvars, fvars, uvars>>

\* The rejected socket is left as it is.
handshakeLeftOpen(sk) == sk

\* ws.close() on a connecting socket, line 213: the handshake is aborted.
abortHandshake(sk) == [state |-> "CLOSING", aborted |-> TRUE, failed |-> TRUE]

\* 'unexpected-response': ws.close() aborts the handshake; a reconnect is scheduled
\* unless shutting down.
UnexpectedResponse(k) ==
    /\ socks[k].state = "CONNECTING"
    /\ socks' = [socks EXCEPT ![k] = abortHandshake(@)]
    /\ Trigger("unexpectedResponse", k, svc)
    /\ UNCHANGED <<fetching, pending, replies>>
    /\ UNCHANGED <<now, bvars, fvars, uvars>>

\* 'error' ahead of 'close': the socket is CLOSING, the handler schedules nothing.
SocketError(k) ==
    /\ socks[k].state \in {"CONNECTING", "OPEN"}
    /\ socks' = [socks EXCEPT ![k].state = "CLOSING", ![k].failed = TRUE]
    /\ slast' = Step("error", k, FALSE, NoFrame, <<>>, FALSE, kth)
    /\ UNCHANGED <<svc, timers, fetching, pending, replies, kth>>
    /\ UNCHANGED <<now, bvars, fvars, uvars>>

\* 'close': this.ws = null and a reconnect is scheduled unless shutting down.
SocketCloses(k) ==
    /\ socks[k].state \in {"CONNECTING", "OPEN", "CLOSING"}
    /\ socks' = [socks EXCEPT ![k] = [state |-> "CLOSED", aborted |-> FALSE, failed |-> FALSE]]
    /\ IF svc.shuttingDown
       THEN /\ svc' = [svc EXCEPT !.ws = NoSocket]
            /\ slast' = Step("close", k, FALSE, NoFrame, <<>>, FALSE, kth)
            /\ UNCHANGED <<timers, kth>>
       ELSE Trigger("close", k, [svc EXCEPT !.ws = NoSocket])
    /\ UNCHANGED <<fetching, pending, replies>>
    /\ UNCHANGED <<now, bvars, fvars, uvars>>

\* 'close' with an 'error' right behind it: the error handler finds the socket CLOSED
\* and calls scheduleReconnect as well.
SocketClosesWithError(k) ==
    /\ socks[k].state \in {"CONNECTING", "OPEN", "CLOSING"}
    /\ socks' = [socks EXCEPT ![k] = [state |-> "CLOSED", aborted |-> FALSE, failed |-> FALSE]]
    /\ LET s0 == [svc EXCEPT !.ws = NoSocket]
           s1 == IF svc.shuttingDown THEN s0 ELSE scheduleReconnect(s0)
           t1 == IF svc.shuttingDown THEN timers ELSE arm(s0, timers)
           n == (IF ~svc.shuttingDown /\ Scheduled(s0) THEN 1 ELSE 0)
                    + (IF Scheduled(s1) THEN 1 ELSE 0)
       IN  /\ svc' = scheduleReconnect(s1)
           /\ timers' = arm(s1, t1)
           /\ kth' = Min(kth + n, MaxKth)
           /\ slast' = Step("closeError", k, n > 0, NoFrame, <<>>, FALSE, Min(kth + n, MaxKth))
    /\ UNCHANGED <<fetching, pending, replies>>
    /\ UNCHANGED <<now, bvars, fvars, uvars>>

\* The reconnect timer fires: the handle is cleared, the delay doubled up to the
\* cap, and openConnection called.
ReconnectTimerFires(d) ==
    /\ BagIn(d, timers)
    /\ \A k \in Socks : ~(socks[k].aborted /\ socks[k].state # "CLOSED")
    /\ openConnection(svc, fetching) <= MaxFetching
    /\ timers' = timers (-) SetToBag({d})
    /\ svc' = backoff(svc)
    /\ fetching' = openConnection(svc, fetching)
    /\ slast' = Step("timer", NoSocket, FALSE, NoFrame, <<>>, FALSE, kth)
    /\ UNCHANGED <<socks, pending, replies, kth>>
    /\ UNCHANGED <<now, bvars, fvars, uvars>>

SessionInit ==
    /\ now = 0
    /\ cb = BreakerInit
    /\ calls = [c \in Calls |-> IdleCall]
    /\ last = NoEvent
    /\ win = 0
    /\ openTime = 0
    /\ halfSucc = 0
    /\ probe = 0
    /\ FacadeVarsInit
    /\ SessionVarsInit
    /\ UnitVarsInit

----------------------------------------------------------------------------
(* The remote session: inbound frames.                                      *)
(*                                                                         *)
(* A socket delivers frames while it is OPEN, and while it is CLOSING after *)
(* close() until the peer's close frame arrives.  A Facade call is a        *)
(* promise the Facade settles later; the peer uses a requestId once.        *)
(***************************************************************************)

reqIdDropped(f) == Undefined

\* handleMessage, line 260: the requestId the handler works with.
reqId(f) == IF f.requestId \in RequestIds THEN f.requestId ELSE Undefined

TruthyAlways(r) == TRUE

\* `if (requestId)`, `if (!requestId)`: undefined and "" are falsy.
Truthy(r) == r # Undefined /\ r # ""

ValidAlways(f) == TRUE

\* performOperation: expectString / expectRecord pass for every required field.
Valid(f) == f.operation \in Operations /\ f.missing \notin Required(f.operation)

\* getFacade: the map has the Facade, or the registry has the instance.
Known(i) == facades[i].made \/ instances[i] # NoImpl

\* handleMessage reaches handleOperation.
Handled(f) == f.json /\ f.type = "operation" /\ Truthy(reqId(f))

\* performOperation reaches the Facade's method.
Called(f) == Handled(f) /\ Known(f.connectorId) /\ Valid(f)

\* The frames handleMessage (and handleOperation, when performOperation throws
\* before its await) sends in reply to frame f.
Reply(f) ==
    CASE ~f.json \/ f.type = "absent" -> <<>>
      [] f.json /\ f.type = "ping" -> send(svc, socks, Msg("pong", reqId(f), "-"))
      [] f.json /\ f.type = "list-connectors" ->
             send(svc, socks, Msg("connectors", reqId(f), "-"))
      [] f.json /\ f.type = "operation" ->
             IF Handled(f) /\ ~Called(f)
             THEN send(svc, socks, Msg("response", reqId(f), "false")) ELSE <<>>
      [] OTHER ->
             IF Truthy(reqId(f)) THEN send(svc, socks, Msg("error", reqId(f), "-")) ELSE <<>>

Record(rs, out) ==
    IF out = <<>> THEN rs
    ELSE [rs EXCEPT ![out[1].requestId] = Append(@, out[1].success)]

\* ws.on("message"): handleMessage(raw) on socket k.
ReceiveFrame(k, f) ==
    /\ socks[k].state \in {"OPEN", "CLOSING"}
    /\ ~socks[k].failed
    /\ Handled(f) =>
           /\ replies[reqId(f)] = <<>>
           /\ \A p \in pending : p.requestId # reqId(f)
    /\ facades' = IF Handled(f) /\ Known(f.connectorId)
                  THEN [facades EXCEPT ![f.connectorId] = FacadeOf(f.connectorId)]
                  ELSE facades
    /\ pending' = IF Called(f)
                  THEN pending \cup {[requestId |-> reqId(f), sock |-> k]} ELSE pending
    /\ replies' = IF f.type = "operation" THEN Record(replies, Reply(f)) ELSE replies
    /\ slast' = Step("frame", k, FALSE, f, Reply(f), Called(f), kth)
    /\ UNCHANGED <<svc, timers, socks, fetching, kth>>
    /\ UNCHANGED <<now, factories, instances, cache, backend, ops, flast, committed>>
    /\ UNCHANGED <<bvars, uvars>>

handleOperationSilentOnError(p, outcome) ==
    IF outcome = "resolved" THEN send(svc, socks, Msg("response", p.requestId, "true")) ELSE <<>>

\* handleOperation after its await: one send.  The try sends success:true; when the
\* call rejected, or when JSON.stringify throws on the result inside send, the
\* catch sends success:false.
handleOperation(p, outcome) ==
    send(svc, socks, Msg("response", p.requestId, IF outcome = "resolved" THEN "true" ELSE "false"))

\* What a Facade call may resolve with: a value JSON.stringify takes, or one it
\* throws on (a BigInt, a cycle).
Results == {"resolved", "unserialisable"}

\* The Facade call of a dispatched operation resolves.
FacadeResolves(p, res) ==
    /\ p \in pending
    /\ pending' = pending \ {p}
    /\ replies' = Record(replies, handleOperation(p, res))
    /\ slast' = Step(res, p.sock, FALSE, [NoFrame EXCEPT !.requestId = p.requestId],
                     handleOperation(p, res), FALSE, kth)
    /\ UNCHANGED <<svc, timers, socks, fetching, kth>>
    /\ UNCHANGED <<now, bvars, fvars, uvars>>

\* The Facade call of a dispatched operation rejects.
FacadeRejects(p) ==
    /\ p \in pending
    /\ pending' = pending \ {p}
    /\ replies' = Record(replies, handleOperation(p, "rejected"))
    /\ slast' = Step("rejected", p.sock, FALSE, [NoFrame EXCEPT !.requestId = p.requestId],
                     handleOperation(p, "rejected"), FALSE, kth)
    /\ UNCHANGED <<svc, timers, socks, fetching, kth>>
    /\ UNCHANGED <<now, bvars, fvars, uvars>>

\* The registry as main() loads it: one factory, instance "a".
LoadedFactory == [exposesId |-> TRUE, caps |-> Kinds]

\* SpecFrames: the session with its registry, its connection and its inbound frames.
FramesNext ==
    \/ RegisterFactory(LoadedFactory)
    \/ InitInstance("a")
    \/ Start
    \/ Shutdown
    \/ \E k \in Socks : TokenResolves(k)
    \/ TokenFails
    \/ \E k \in Socks : SocketOpens(k)
    \/ \E k \in Socks : UnexpectedResponse(k)
    \/ \E k \in Socks : SocketError(k)
    \/ \E k \in Socks : SocketCloses(k)
    \/ \E k \in Socks : SocketClosesWithError(k)
    \/ \E d \in BagToSet(timers) : ReconnectTimerFires(d)
    \/ \E k \in Socks, f \in Frames : ReceiveFrame(k, f)
    \/ \E p \in pending, res \in Results : FacadeResolves(p, res)
    \/ \E p \in pending : FacadeRejects(p)

SpecFrames == SessionInit /\ [][FramesNext]_vars

\* SpecSession: the session's connection as the environment drives it.
SessionNext ==
    \/ Start
    \/ Shutdown
    \/ \E k \in Socks : TokenResolves(k)
    \/ TokenFails
    \/ \E k \in Socks : SocketOpens(k)
    \/ \E k \in Socks : UnexpectedResponse(k)
    \/ \E k \in Socks : SocketError(k)
    \/ \E k \in Socks : SocketCloses(k)
    \/ \E k \in Socks : SocketClosesWithError(k)
    \/ \E d \in BagToSet(timers) : ReconnectTimerFires(d)

SpecSession == SessionInit /\ [][SessionNext]_vars

----------------------------------------------------------------------------
(* The token provider (OAuthTokenProvider), called by any holder of it.     *)
(***************************************************************************)

\* Everything outside the unit at hand, as constructed.
CoreInit ==
    /\ now = 0
    /\ cb = BreakerInit
    /\ calls = [c \in Calls |-> IdleCall]
    /\ last = NoEvent
    /\ win = 0
    /\ openTime = 0
    /\ halfSucc = 0
    /\ probe = 0
    /\ FacadeVarsInit
    /\ SessionVarsInit

QuietInit == CoreInit /\ auth = NoUnit /\ http = NoUnit

CoreQuiet == UNCHANGED <<now, bvars, fvars, svars>>

Quiet == CoreQuiet /\ UNCHANGED <<auth, http>>

\* The token requests in flight: the callers past the fetch of line 79.
InFlightRequests(o) == {c \in TokenCallers : o.callers[c].st = "fetching"}

isTokenValid(o) == o.accessToken # NoToken /\ o.fresh

TokenStep(ev, c) == [ev |-> ev, caller |-> c, inflight |-> Cardinality(InFlightRequests(oauth))]

\* getToken up to its first await: the cached token if valid, else a POST.
GetToken(c) ==
    /\ oauth.callers[c].st = "idle"
    /\ oauth' = [oauth EXCEPT
           !.callers[c] = IF isTokenValid(oauth)
                          THEN [st |-> "returned", got |-> oauth.accessToken]
                          ELSE [st |-> "fetching", got |-> NoToken],
           !.last = TokenStep(IF isTokenValid(oauth) THEN "cached" ELSE "request", c)]
    /\ UNCHANGED <<registry, loader, filter, search>>
    /\ Quiet

\* The endpoint answers 2xx with an access_token: it is stored and returned.
TokenResponse(c) ==
    /\ oauth.callers[c].st = "fetching"
    /\ oauth.issued < MaxIssued
    /\ oauth' = [oauth EXCEPT
           !.issued = @ + 1,
           !.accessToken = oauth.issued + 1,
           !.fresh = TRUE,
           !.callers[c] = [st |-> "returned", got |-> oauth.issued + 1],
           !.last = TokenStep("response", c)]
    /\ UNCHANGED <<registry, loader, filter, search>>
    /\ Quiet

\* The endpoint answers non-2xx, or without access_token: getToken throws.
TokenRequestFails(c) ==
    /\ oauth.callers[c].st = "fetching"
    /\ oauth' = [oauth EXCEPT
           !.callers[c] = [st |-> "failed", got |-> NoToken],
           !.last = TokenStep("failure", c)]
    /\ UNCHANGED <<registry, loader, filter, search>>
    /\ Quiet

\* invalidate()
Invalidate ==
    /\ oauth.accessToken # NoToken
    /\ oauth' = [oauth EXCEPT !.accessToken = NoToken, !.fresh = FALSE,
                              !.last = TokenStep("invalidate", 0)]
    /\ UNCHANGED <<registry, loader, filter, search>>
    /\ Quiet

\* Time passes: the token comes within earlyExpiryMs of its expiry.
TokenAges ==
    /\ oauth.fresh
    /\ oauth' = [oauth EXCEPT !.fresh = FALSE, !.last = TokenStep("aged", 0)]
    /\ UNCHANGED <<registry, loader, filter, search>>
    /\ Quiet

\* A caller that has its answer calls again later.
CallerReturns(c) ==
    /\ oauth.callers[c].st \in {"returned", "failed"}
    /\ oauth' = [oauth EXCEPT !.callers[c] = IdleCaller, !.last = TokenStep("done", c)]
    /\ UNCHANGED <<registry, loader, filter, search>>
    /\ Quiet

TokenInit ==
    /\ QuietInit
    /\ oauth = OAuthInit
    /\ registry = NoUnit
    /\ loader = NoUnit
    /\ filter = NoUnit
    /\ search = NoUnit

TokenNext ==
    \/ \E c \in TokenCallers : GetToken(c)
    \/ \E c \in TokenCallers : TokenResponse(c)
    \/ \E c \in TokenCallers : TokenRequestFails(c)
    \/ Invalidate
    \/ TokenAges
    \/ \E c \in TokenCallers : CallerReturns(c)

SpecToken == TokenInit /\ [][TokenNext]_vars

----------------------------------------------------------------------------
(* The versioned registry (ConnectorRegistry), keyed by type@version.       *)
(***************************************************************************)

\* toConnectorKey: `${type}@${version}`.
toConnectorKey(type, version) == type \o <<"@">> \o version

Range(q) == {q[i] : i \in 1..Len(q)}

RegistryQuiet == UNCHANGED <<oauth, loader, filter, search>> /\ Quiet

\* registerFactory(type, version, factory): Map.set keeps a key's first position.
RegistryRegisterFactory(t, v) ==
    /\ registry.call = NoCall
    /\ Len(registry.keys) < MaxFactories
    /\ registry' = [registry EXCEPT
           !.keys = IF toConnectorKey(t, v) \in Range(@)
                    THEN @ ELSE Append(@, toConnectorKey(t, v)),
           !.pairs = @ \cup {<<t, v>>},
           !.last = NoLast]
    /\ RegistryQuiet

\* registerConfigBuilder(type, version, builder)
RegistryRegisterConfigBuilder(t, v) ==
    /\ registry.call = NoCall
    /\ toConnectorKey(t, v) \notin registry.builders
    /\ registry' = [registry EXCEPT
           !.builders = @ \cup {toConnectorKey(t, v)},
           !.last = NoLast]
    /\ RegistryQuiet

\* How an initInstance call ends: the history of it.
Ended(ev, c, trace) ==
    [ev |-> ev, id |-> c.id, pair |-> c.pair, cfg |-> c.cfg, trace |-> trace, pre |-> c.pre,
     known |-> c.known, result |-> <<>>]

withConfigUnvalidated(c, cfg, trace) ==
    [c EXCEPT !.stage = "factory", !.cfg = cfg, !.trace = trace \o <<"factory">>]

\* initInstance once the effective configuration is known: validate when it has the
\* hook, else the factory.
withConfig(c, cfg, trace) ==
    IF cfg = "validated"
    THEN [c EXCEPT !.stage = "validate", !.cfg = cfg, !.trace = trace \o <<"validate">>]
    ELSE [c EXCEPT !.stage = "factory", !.cfg = cfg, !.trace = trace \o <<"factory">>]

\* initInstance(id, type, version, rawConfig) up to its first await.
InitInstanceBegins(id, t, v, raw) ==
    /\ registry.call = NoCall
    /\ LET c == [stage |-> "begin", id |-> id, pair |-> <<t, v>>, cfg |-> raw, trace |-> <<>>,
                 pre |-> registry.instances, known |-> <<t, v>> \in registry.pairs]
       IN  registry' =
               IF toConnectorKey(t, v) \notin Range(registry.keys)
               THEN [registry EXCEPT !.last = Ended("unknownConnectorType", c, <<>>)]
               ELSE IF toConnectorKey(t, v) \in registry.builders
               THEN [registry EXCEPT !.call = [c EXCEPT !.stage = "builder",
                                                        !.trace = <<"builder">>],
                                     !.last = NoLast]
               ELSE [registry EXCEPT !.call = withConfig(c, raw, <<>>),
                                     !.last = NoLast]
    /\ RegistryQuiet

\* The config builder returns the effective configuration.
BuilderReturns(cfg) ==
    /\ registry.call.stage = "builder"
    /\ registry' = [registry EXCEPT !.call = withConfig(@, cfg, @.trace),
                                    !.last = NoLast]
    /\ RegistryQuiet

\* validate() returns: the factory is invoked.
ValidateReturns ==
    /\ registry.call.stage = "validate"
    /\ registry' = [registry EXCEPT
           !.call = [@ EXCEPT !.stage = "factory", !.trace = @ \o <<"validated", "factory">>],
           !.last = NoLast]
    /\ RegistryQuiet

\* The builder, validate() or the factory throws: initInstance rejects.
HookThrows ==
    /\ registry.call.stage \in {"builder", "validate", "factory"}
    /\ registry' = [registry EXCEPT
           !.call = NoCall,
           !.last = Ended(registry.call.stage \o "Error", registry.call, registry.call.trace)]
    /\ RegistryQuiet

\* The factory returns the spi: the instance is stored under its id.
FactoryReturns ==
    /\ registry.call.stage = "factory"
    /\ registry.made < MaxMade
    /\ registry' = [registry EXCEPT
           !.call = NoCall,
           !.made = @ + 1,
           !.instances[registry.call.id] = registry.made + 1,
           !.last = Ended("stored", registry.call, registry.call.trace)]
    /\ RegistryQuiet

\* The UTF-16 code unit of a character, which Array.prototype.sort() compares.
CodeUnit(ch) ==
    CASE ch = "-" -> 45 [] ch = "." -> 46 [] ch = "0" -> 48 [] ch = "1" -> 49
      [] ch = "2" -> 50 [] ch = "@" -> 64 [] ch = "a" -> 97 [] ch = "b" -> 98
      [] ch = "c" -> 99 [] ch = "e" -> 101 [] ch = "t" -> 116 [] OTHER -> 0

\* a < b as sort() without a comparator orders strings.
RECURSIVE lexLess(_, _)
lexLess(a, b) ==
    IF b = <<>> THEN FALSE
    ELSE IF a = <<>> THEN TRUE
    ELSE IF CodeUnit(Head(a)) # CodeUnit(Head(b)) THEN CodeUnit(Head(a)) < CodeUnit(Head(b))
    ELSE lexLess(Tail(a), Tail(b))

\* q up to its first sep.
RECURSIVE upTo(_, _)
upTo(q, sep) ==
    IF q = <<>> \/ Head(q) = sep THEN <<>> ELSE <<Head(q)>> \o upTo(Tail(q), sep)

\* q after its first sep; <<>> when there is none.
RECURSIVE after(_, _)
after(q, sep) ==
    IF q = <<>> THEN <<>> ELSE IF Head(q) = sep THEN Tail(q) ELSE after(Tail(q), sep)

\* key.split('@')[1]
secondPart(k) == upTo(after(k, "@"), "@")

\* versions.sort()
versionsSorted(q) == SortSeq(q, LAMBDA x, y : lexLess(x, y))

\* getVersions(type)
getVersions(type) ==
    LET mine == SelectSeq(registry.keys, LAMBDA k : startsWith(k, type \o <<"@">>))
    IN  versionsSorted([i \in 1..Len(mine) |-> secondPart(mine[i])])

\* getLatestVersion(type): versions[versions.length - 1], undefined when empty.
getLatestVersion(type) ==
    IF getVersions(type) = <<>> THEN <<>>
    ELSE <<getVersions(type)[Len(getVersions(type))]>>

GetVersions(t) ==
    /\ registry.call = NoCall
    /\ registry' = [registry EXCEPT
           !.last = [NoLast EXCEPT !.ev = "getVersions", !.pair = <<t>>,
                                   !.result = getVersions(t)]]
    /\ RegistryQuiet

GetLatestVersion(t) ==
    /\ registry.call = NoCall
    /\ registry' = [registry EXCEPT
           !.last = [NoLast EXCEPT !.ev = "getLatestVersion", !.pair = <<t>>,
                                   !.result = getLatestVersion(t)]]
    /\ RegistryQuiet

VersionedInit ==
    /\ QuietInit
    /\ registry = RegistryInit
    /\ oauth = NoUnit
    /\ loader = NoUnit
    /\ filter = NoUnit
    /\ search = NoUnit

\* SpecInitInstance: factories and builders registered, instances initialised.
InitInstanceNext ==
    \/ \E t \in Types, v \in InitVersions : RegistryRegisterFactory(t, v)
    \/ \E t \in Types, v \in InitVersions : RegistryRegisterConfigBuilder(t, v)
    \/ \E id \in InstanceIds, t \in Types, v \in InitVersions, raw \in ConfigKinds :
           InitInstanceBegins(id, t, v, raw)
    \/ \E cfg \in ConfigKinds : BuilderReturns(cfg)
    \/ ValidateReturns
    \/ HookThrows
    \/ FactoryReturns

SpecInitInstance == VersionedInit /\ [][InitInstanceNext]_vars

\* SpecVersions: factories registered under semantic versions, and listed.
VersionsNext ==
    \/ \E t \in VersionedTypes, v \in SemVersions : RegistryRegisterFactory(t, v)
    \/ \E t \in VersionedTypes : GetVersions(t)
    \/ \E t \in VersionedTypes : GetLatestVersion(t)

SpecVersions == VersionedInit /\ [][VersionsNext]_vars

-----------------------------------------------------------------------------
(* The external loader: loadExternalConnectors walks the connector          *)
(* directories, reads each manifest, imports its module and initialises     *)
(* its declared instances. Configuration values are strings, kept as        *)
(* sequences of characters because resolveEnvStrings matches them.          *)

NumDirs == 2
MaxInstances == 2

Literal == <<"s">>
RefX == <<"$", "{", "X", "}">>
RefLower == <<"$", "{", "x", "}">>
ConfigValues == {Literal, RefX, RefLower}
Secret == <<"s", "h", "h">>

\* What stands in the way of a directory entry before its instances.
EntryFaults == {"none", "notDirectory", "manifestUnreadable", "manifestInvalid",
                "importError", "notFunction"}

\* A declared instance: its configuration value, and whether initInstance rejects.
InstanceDefs == [value : ConfigValues, initFails : BOOLEAN]
InstanceLists == UNION {[1..n -> InstanceDefs] : n \in 0..MaxInstances}
Entries == {[fault |-> "none", instances |-> q] : q \in InstanceLists}
               \cup {[fault |-> f, instances |-> <<>>] : f \in EntryFaults \ {"none"}}

EnvNameChars == {"X", "Y", "0", "_"}

\* val.match(/^\$\{([A-Z0-9_]+)\}$/): the captured name, <<>> when no match.
envName(val) ==
    IF /\ Len(val) >= 4
       /\ val[1] = "$" /\ val[2] = "{" /\ val[Len(val)] = "}"
       /\ \A i \in 3..(Len(val) - 1) : val[i] \in EnvNameChars
    THEN SubSeq(val, 3, Len(val) - 1) ELSE <<>>

\* process.env[name]
envValue(env, name) == IF name \in DOMAIN env THEN env[name] ELSE Undefined

\* resolveEnvStrings(val) on a string: "missing" stands for the thrown error.
resolveEnvStrings(env, val) ==
    IF envName(val) = <<>> THEN val
    ELSE IF envValue(env, envName(val)) = Undefined THEN "missing"
    ELSE envValue(env, envName(val))

Environments == {<<>>, (<<"X">> :> Secret)}

LoaderInit ==
    /\ loader \in [unit : {"loader"}, env : Environments,
                   entries : [1..NumDirs -> Entries],
                   pos : {1}, stage : {"manifest"}, idx : {1},
                   visited : {{}}, registered : {{}}, initialised : {{}},
                   failed : {{}}]
    /\ QuietInit
    /\ oauth = NoUnit
    /\ registry = NoUnit
    /\ filter = NoUnit
    /\ search = NoUnit

LoaderQuiet == UNCHANGED <<oauth, registry, filter, search>> /\ Quiet

\* continue, or the end of the loop body: the for loop goes to the next entry.
nextEntry(l) == [l EXCEPT !.pos = @ + 1, !.stage = "manifest", !.idx = 1]

\* The error leaves the loop: every remaining directory is abandoned.
rethrown(l) == [l EXCEPT !.pos = NumDirs + 1, !.stage = "manifest", !.idx = 1]

\* catch (e) { console.error(...) }: the error is logged and the loop goes on.
caught(l) == nextEntry(l)

entry(l) == l.entries[l.pos]

\* The head of the loop body: isDirectory(), then the manifest is read, parsed
\* and tested for id, type and entry.
ReadManifest ==
    /\ loader.pos <= NumDirs /\ loader.stage = "manifest"
    /\ LET l == [loader EXCEPT !.visited = @ \cup {loader.pos}]
       IN  loader' = IF entry(loader).fault \in {"notDirectory", "manifestUnreadable",
                                                  "manifestInvalid"}
                     THEN nextEntry(l)
                     ELSE [l EXCEPT !.stage = "import"]
    /\ LoaderQuiet

\* import(modUrl), the test of its default export, registerFactory.
ImportModule ==
    /\ loader.pos <= NumDirs /\ loader.stage = "import"
    /\ loader' = IF entry(loader).fault = "importError" THEN caught(loader)
                 ELSE IF entry(loader).fault = "notFunction" THEN nextEntry(loader)
                 ELSE [loader EXCEPT !.stage = "instances",
                                     !.registered = @ \cup {loader.pos}]
    /\ LoaderQuiet

\* The configuration handed to initInstance: buildConfiguration(mergedRaw) or mergedRaw.
effectiveCfg(env, val) == val

\* One turn of the loop over the instances, or its end.
InitDeclaredInstance ==
    /\ loader.pos <= NumDirs /\ loader.stage = "instances"
    /\ LET insts == entry(loader).instances
           inst == insts[loader.idx]
           here == <<loader.pos, loader.idx>>
       IN  loader' =
             IF loader.idx > Len(insts) THEN nextEntry(loader)
             ELSE IF resolveEnvStrings(loader.env, inst.value) = "missing" \/ inst.initFails
             THEN caught([loader EXCEPT !.failed = @ \cup {here}])
             ELSE [loader EXCEPT
                      !.idx = @ + 1,
                      !.initialised = @ \cup
                          {<<loader.pos, loader.idx, effectiveCfg(loader.env, inst.value)>>}]
    /\ LoaderQuiet

LoaderNext == ReadManifest \/ ImportModule \/ InitDeclaredInstance

SpecLoader == LoaderInit /\ [][LoaderNext]_vars

-----------------------------------------------------------------------------
(* Filters: parseFilter validates an untrusted tree against NodeSchema;     *)
(* astToOData and toSql translate a tree. A value is described by its       *)
(* JavaScript type, an array by its length and the type of its elements;    *)
(* translated text is a sequence of tokens.                                 *)

Ops == {"EQ", "CONTAINS", "STARTS_WITH", "ENDS_WITH", "GT", "GTE", "LT", "LTE", "IN", "EXISTS"}
InputOps == Ops \cup {"NE"}

MaxPathLen == 8
MaxArrayLen == 100
MaxNodes == 50

NoValue == [kind |-> "undefined", len |-> 0, elems |-> "-"]
Primitive(k) == [kind |-> k, len |-> 0, elems |-> "-"]
ArrayOf(n, k) == [kind |-> "array", len |-> n, elems |-> k]
InputValues ==
    {NoValue, Primitive("string"), Primitive("number"), Primitive("boolean"),
     Primitive("object"),
     ArrayOf(0, "string"), ArrayOf(1, "string"), ArrayOf(MaxArrayLen, "number"),
     ArrayOf(MaxArrayLen + 1, "string"), ArrayOf(2, "boolean")}

InputPaths == {<<>>, <<"mail">>, <<"x">>, <<"a", "b">>}

Cmp(op, path, value) == [type |-> "CMP", op |-> op, path |-> path, value |-> value]
Leaves == {Cmp(op, path, value) : op \in InputOps, path \in InputPaths, value \in InputValues}
Seconds == {Cmp("EQ", <<"mail">>, Primitive("string")), Cmp("EXISTS", <<"mail">>, NoValue)}
NodeLists == {<<>>} \cup {<<n>> : n \in Leaves} \cup {<<n, m>> : n \in Leaves, m \in Seconds}
Inputs ==
    Leaves \cup {[type |-> "NOT", node |-> n] : n \in Leaves}
           \cup {[type |-> t, nodes |-> q] : t \in {"AND", "OR", "XOR"}, q \in NodeLists}

\* PathSchema
PathSchema(path) == Len(path) >= 1 /\ Len(path) <= MaxPathLen

\* The union of the value field: a string, a number, a boolean, or an array of
\* 1..100 strings and numbers.
ValueSchema(v) ==
    \/ v.kind \in {"string", "number", "boolean"}
    \/ v.kind = "array" /\ v.elems \in {"string", "number"}
                        /\ v.len >= 1 /\ v.len <= MaxArrayLen

\* The refinement of CmpSchema.
refine(n) == (n.op = "EXISTS") = (n.value = NoValue)

\* CmpSchema
CmpSchema(n) ==
    /\ n.op \in Ops
    /\ PathSchema(n.path)
    /\ (n.value = NoValue \/ ValueSchema(n.value))
    /\ refine(n)

\* NodeSchema
RECURSIVE NodeSchema(_)
NodeSchema(n) ==
    CASE n.type = "CMP" -> CmpSchema(n)
      [] n.type \in {"AND", "OR"} ->
             /\ Len(n.nodes) >= 1 /\ Len(n.nodes) <= MaxNodes
             /\ \A i \in 1..Len(n.nodes) : NodeSchema(n.nodes[i])
      [] n.type = "NOT" -> NodeSchema(n.node)
      [] OTHER -> FALSE

\* A translator's outcome: the text, or the error it threw.
Text(q) == [ok |-> TRUE, out |-> q, error |-> "-"]
Thrown(e) == [ok |-> FALSE, out |-> <<>>, error |-> e]

\* The texts of a node list joined by a separator; the first error met wins.
RECURSIVE joined(_, _)
joined(rs, sep) ==
    IF rs = <<>> THEN Text(<<>>)
    ELSE IF ~Head(rs).ok THEN Head(rs)
    ELSE IF Tail(rs) = <<>> THEN Head(rs)
    ELSE IF ~joined(Tail(rs), sep).ok THEN joined(Tail(rs), sep)
    ELSE Text(Head(rs).out \o <<sep>> \o joined(Tail(rs), sep).out)

Parens(r) == IF r.ok THEN Text(<<"(">> \o r.out \o <<")">>) ELSE r

\* filterFields[ocName] of the Graph connector's search.
AllowedFields == {"mail"}

\* field(path) of astToOData
field(path, allowed) ==
    IF Len(path) # 1 THEN Thrown("Nested filters not supported")
    ELSE IF path[1] \notin allowed THEN Thrown("Filtering not allowed")
    ELSE Text(<<path[1]>>)

\* typeof n.value === "string" ? esc(...) : String(n.value)
literal(v) == IF v.kind = "string" THEN <<"'", v.kind, "'">> ELSE <<v.kind>>

\* walk of astToOData. A CMP whose op has no case in the inner switch falls
\* through to case "AND", where n.nodes is undefined.
RECURSIVE astToOData(_, _)
astToOData(n, allowed) ==
    CASE n.type = "CMP" ->
             IF ~field(n.path, allowed).ok THEN field(n.path, allowed)
             ELSE CASE n.op = "EQ" -> Text(<<n.path[1], "eq">> \o literal(n.value))
                    [] n.op = "CONTAINS" ->
                           Text(<<"contains(", n.path[1], ",">> \o literal(n.value) \o <<")">>)
                    [] n.op = "STARTS_WITH" ->
                           Text(<<"startswith(", n.path[1], ",">> \o literal(n.value) \o <<")">>)
                    [] n.op = "ENDS_WITH" ->
                           Text(<<"endswith(", n.path[1], ",">> \o literal(n.value) \o <<")">>)
                    [] OTHER -> Thrown("TypeError")
      [] n.type = "AND" ->
             Parens(joined([i \in 1..Len(n.nodes) |-> astToOData(n.nodes[i], allowed)], "and"))
      [] n.type = "OR" ->
             Parens(joined([i \in 1..Len(n.nodes) |-> astToOData(n.nodes[i], allowed)], "or"))
      [] n.type = "NOT" ->
             IF astToOData(n.node, allowed).ok
             THEN Text(<<"(", "not">> \o astToOData(n.node, allowed).out \o <<")">>)
             ELSE astToOData(n.node, allowed)

\* path.join(".")
RECURSIVE pathKey(_)
pathKey(path) ==
    IF path = <<>> THEN <<>>
    ELSE IF Tail(path) = <<>> THEN <<Head(path)>>
    ELSE <<Head(path), ".">> \o pathKey(Tail(path))

\* The column map handed to toSql: a quoted identifier passes the test of
\* colFor, the column of "x" does not.
Columns == (<<"mail">> :> "\"mail\"") @@ (<<"a", ".", "b">> :> "\"a_b\"") @@ (<<"x">> :> "x; --")
SafeColumns == {"\"mail\"", "\"a_b\""}

\* colFor(path) of toSql
colFor(path, map) ==
    IF pathKey(path) \notin DOMAIN map THEN Thrown("Unsupported filter path")
    ELSE IF map[pathKey(path)] \notin SafeColumns THEN Thrown("Unsafe column mapping")
    ELSE Text(<<map[pathKey(path)]>>)

\* The SQL operator of the inner switch of toSql; "none" is its default case.
sqlOp(op) ==
    CASE op = "EQ" -> "=" [] op = "GT" -> ">" [] op = "GTE" -> ">="
      [] op = "LT" -> "<" [] op = "LTE" -> "<="
      [] op \in {"CONTAINS", "STARTS_WITH", "ENDS_WITH"} -> "LIKE"
      [] OTHER -> "none"

\* walk of toSql; a parameter is written "$".
RECURSIVE toSql(_, _)
toSql(n, map) ==
    CASE n.type = "CMP" ->
             IF ~colFor(n.path, map).ok THEN colFor(n.path, map)
             ELSE IF n.op = "EXISTS" THEN Text(colFor(n.path, map).out \o <<"IS NOT NULL">>)
             ELSE IF n.op = "IN" /\ n.value.kind = "array"
                  THEN Text(colFor(n.path, map).out \o <<"= ANY(ARRAY[", "$", "])">>)
             ELSE IF sqlOp(n.op) = "none" THEN Thrown("Unsupported op")
             ELSE Text(colFor(n.path, map).out \o <<sqlOp(n.op), "$">>)
      [] n.type = "AND" ->
             Parens(joined([i \in 1..Len(n.nodes) |-> toSql(n.nodes[i], map)], "AND"))
      [] n.type = "OR" ->
             Parens(joined([i \in 1..Len(n.nodes) |-> toSql(n.nodes[i], map)], "OR"))
      [] n.type = "NOT" ->
             IF toSql(n.node, map).ok
             THEN Text(<<"(", "NOT">> \o toSql(n.node, map).out \o <<")">>)
             ELSE toSql(n.node, map)

NoText == [ok |-> FALSE, out |-> <<>>, error |-> "none"]

FilterInit ==
    /\ filter \in [unit : {"filter"}, input : Inputs, stage : {"given"},
                   accepted : {FALSE}, odata : {NoText}, sql : {NoText}]
    /\ QuietInit
    /\ oauth = NoUnit
    /\ registry = NoUnit
    /\ loader = NoUnit
    /\ search = NoUnit

FilterQuiet == UNCHANGED <<oauth, registry, loader, search>> /\ Quiet

\* parseFilter(input): NodeSchema.parse returns the node or throws.
ParseFilter ==
    /\ filter.stage = "given"
    /\ filter' = [filter EXCEPT !.stage = IF NodeSchema(filter.input) THEN "parsed" ELSE "rejected",
                                !.accepted = NodeSchema(filter.input)]
    /\ FilterQuiet

\* The parsed tree is translated for the Graph connector's $filter.
TranslateOData ==
    /\ filter.stage = "parsed" /\ filter.odata = NoText
    /\ filter' = [filter EXCEPT !.odata = astToOData(filter.input, AllowedFields)]
    /\ FilterQuiet

\* The parsed tree is translated to a parameterised WHERE clause.
TranslateSql ==
    /\ filter.stage = "parsed" /\ filter.sql = NoText
    /\ filter' = [filter EXCEPT !.sql = toSql(filter.input, Columns)]
    /\ FilterQuiet

FilterNext == ParseFilter \/ TranslateOData \/ TranslateSql

SpecFilter == FilterInit /\ [][FilterNext]_vars

-----------------------------------------------------------------------------
(* Streaming search: the Graph connector's search pages through the         *)
(* backend with pageAndEmit and offers every object to push, which hands    *)
(* it to the consumer's handler in the streaming form and collects it in    *)
(* the list form.                                                           *)

MaxPages == 3
MaxItems == 2

\* A page of the backend: its objects, and whether it carries @odata.nextLink
\* and @odata.deltaLink.
Pages == [items : 0..MaxItems, nextLink : BOOLEAN, deltaLink : BOOLEAN]

\* What a handler returns for an object.
Answers == {"true", "false", "undefined"}

\* The caller of the connector's search: the list form without a handler, the
\* facade's collecting handler, or a consumer's own handler.
Consumers == {"list", "facade", "handler"}

NoCookie == <<>>
Link(kind, p) == <<kind, p>>

SearchInit ==
    /\ search \in [unit : {"search"}, consumer : Consumers,
                   pages : {q \in [1..MaxPages -> Pages] : ~q[MaxPages].nextLink},
                   stage : {"first"}, page : {0}, idx : {1},
                   fetched : {0}, offered : {0}, cookie : {NoCookie},
                   cancelled : {FALSE},
                   atCancel : {[offered |-> 0, fetched |-> 0, page |-> 0]},
                   emitted : {<<>>}, out : {<<>>},
                   facade : {"waiting"}, results : {<<>>}]
    /\ QuietInit
    /\ oauth = NoUnit
    /\ registry = NoUnit
    /\ loader = NoUnit
    /\ filter = NoUnit

SearchQuiet == UNCHANGED <<oauth, registry, loader, filter>> /\ Quiet

\* const streaming = typeof handlerOrOptions === "function"
streaming(consumer) == consumer # "list"

\* The handler of ConnectorFacade.search collects the object and returns true.
HandlerAnswers(consumer) == IF consumer = "facade" THEN {"true"} ELSE Answers

\* The buffer keeps the latest object only.
collectLatest(out, obj) == <<obj>>

\* The handler of ConnectorFacade.search: out.push(obj).
collect(out, obj) == Append(out, obj)

\* The handler's answer is not looked at.
pushAll(consumer, answer) == TRUE

\* push(obj): cont !== false in the streaming form, true in the list form.
push(consumer, answer) == IF streaming(consumer) THEN answer # "false" ELSE TRUE

\* json["@odata.nextLink"] || json["@odata.deltaLink"] || null
currentCookie(pg, p) ==
    IF pg.nextLink THEN Link("next", p)
    ELSE IF pg.deltaLink THEN Link("delta", p)
    ELSE NoCookie

\* The head of pageAndEmit's loop: the first request, or the request of nextUrl.
RequestPage ==
    /\ search.stage \in {"first", "next"}
    /\ search' = [search EXCEPT !.stage = "items", !.page = @ + 1, !.idx = 1,
                                !.fetched = @ + 1]
    /\ SearchQuiet

\* One turn of the loop over the items of the page: the object is pushed, and
\* pageAndEmit returns the page's cookie when push says stop.
OfferItem(answer) ==
    /\ search.stage = "items"
    /\ search.idx <= search.pages[search.page].items
    /\ answer \in HandlerAnswers(search.consumer)
    /\ LET stop == streaming(search.consumer) /\ answer = "false"
           obj == <<search.page, search.idx>>
           s == [search EXCEPT
                    !.offered = @ + 1,
                    !.emitted = Append(@, obj),
                    !.out = IF search.consumer = "facade" THEN collect(@, obj) ELSE @,
                    !.cancelled = @ \/ stop,
                    !.atCancel = IF stop /\ ~search.cancelled
                                 THEN [offered |-> search.offered + 1,
                                       fetched |-> search.fetched,
                                       page |-> search.page]
                                 ELSE @]
       IN  search' = IF push(search.consumer, answer)
                     THEN [s EXCEPT !.idx = @ + 1]
                     ELSE [s EXCEPT !.stage = "returned",
                                    !.cookie = currentCookie(search.pages[search.page],
                                                             search.page)]
    /\ SearchQuiet

\* The items of the page are through: nextUrl is the page's nextLink, and
\* without one pageAndEmit returns the deltaLink.
PageDone ==
    /\ search.stage = "items"
    /\ search.idx > search.pages[search.page].items
    /\ search' = IF search.pages[search.page].nextLink
                 THEN [search EXCEPT !.stage = "next"]
                 ELSE [search EXCEPT
                          !.stage = "returned",
                          !.cookie = IF search.pages[search.page].deltaLink
                                     THEN Link("delta", search.page) ELSE NoCookie]
    /\ SearchQuiet

\* ConnectorFacade.search: the breaker's call resolved with the impl's
\* SearchResult, and the buffer is returned as results.
FacadeSearchReturns ==
    /\ search.consumer = "facade"
    /\ search.facade = "waiting"
    /\ search.stage = "returned"
    /\ search' = [search EXCEPT !.facade = "returned", !.results = search.out]
    /\ SearchQuiet

\* ConnectorFacade.search: the breaker's timeout wins the race while the impl
\* is still searching; the caller gets the error and the impl goes on.
FacadeSearchTimesOut ==
    /\ search.consumer = "facade"
    /\ search.facade = "waiting"
    /\ search.stage # "returned"
    /\ search' = [search EXCEPT !.facade = "threw"]
    /\ SearchQuiet

SearchNext ==
    \/ RequestPage
    \/ \E answer \in Answers : OfferItem(answer)
    \/ PageDone
    \/ FacadeSearchReturns
    \/ FacadeSearchTimesOut

SpecSearch == SearchInit /\ [][SearchNext]_vars

-----------------------------------------------------------------------------
(* requireJwt: a bearer token is verified, and a token that carries a jti   *)
(* is claimed in the JtiCache. Time is in epoch seconds.                    *)

Skew == 60
MaxEpoch == 63
MaxExp == 2
MaxAccepted == 2

Jtis == {"j1", "j2"}
NoJti == ""
NoExp == 0
Exps == 1..MaxExp

\* The tokens presented: signed tokens with sub and exp, with or without a jti.
Tokens == [jti : Jtis \cup {NoJti}, exp : Exps]

NoRequest == [ev |-> "none", jti |-> NoJti, exp |-> NoExp, verified |-> FALSE,
              seen |-> FALSE, status |-> 0, error |-> "-"]

AuthInit ==
    /\ auth = [unit |-> "auth", clock |-> 0,
               map |-> [j \in Jtis |-> NoExp],
               accepted |-> [j \in Jtis |-> 0],
               last |-> NoRequest]
    /\ CoreInit
    /\ oauth = NoUnit
    /\ registry = NoUnit
    /\ loader = NoUnit
    /\ filter = NoUnit
    /\ search = NoUnit
    /\ http = NoUnit

AuthQuiet == UNCHANGED <<oauth, registry, loader, filter, search, http>> /\ CoreQuiet

\* jwtVerify with clockTolerance: the token is expired once exp <= now - tolerance.
jwtVerify(tok, clock) == tok.exp > clock - Skew

\* JtiCache.sweep(): entries with exp <= now are deleted.
sweep(map, clock) == [j \in Jtis |-> IF map[j] # NoExp /\ map[j] <= clock THEN NoExp ELSE map[j]]

\* JtiCache.claim(jti, exp): false when a live entry exists, else the entry is set.
claim(map, jti, clock) ==
    ~(sweep(map, clock)[jti] # NoExp /\ sweep(map, clock)[jti] > clock)

\* The request handler of requireJwt for a well-formed bearer token with kid,
\* an allowed alg, sub and the required scopes.
PresentToken(tok) ==
    /\ LET ok == jwtVerify(tok, auth.clock)
           seen == tok.jti # NoJti /\ auth.accepted[tok.jti] > 0
           req == [NoRequest EXCEPT !.ev = "request", !.jti = tok.jti, !.exp = tok.exp,
                                    !.verified = ok, !.seen = seen]
       IN  auth' =
             IF ~ok
             THEN [auth EXCEPT !.last = [req EXCEPT !.status = 401, !.error = "Token expired"]]
             ELSE IF tok.jti = NoJti
             THEN [auth EXCEPT !.last = [req EXCEPT !.status = 200]]
             ELSE IF ~claim(auth.map, tok.jti, auth.clock)
             THEN [auth EXCEPT !.map = sweep(auth.map, auth.clock),
                               !.last = [req EXCEPT !.status = 401,
                                                    !.error = "Replay detected"]]
             ELSE [auth EXCEPT !.map = [sweep(auth.map, auth.clock) EXCEPT ![tok.jti] = tok.exp],
                               !.accepted[tok.jti] = IF @ < MaxAccepted THEN @ + 1 ELSE @,
                               !.last = [req EXCEPT !.status = 200]]
    /\ AuthQuiet

\* setInterval(() => this.sweep(), sweepMs)
SweepTimer ==
    /\ auth' = [auth EXCEPT !.map = sweep(auth.map, auth.clock), !.last = NoRequest]
    /\ auth'.map # auth.map
    /\ AuthQuiet

\* A second passes.
ClockTicks ==
    /\ auth.clock < MaxEpoch
    /\ auth' = [auth EXCEPT !.clock = @ + 1, !.last = NoRequest]
    /\ AuthQuiet

AuthNext ==
    \/ \E tok \in Tokens : PresentToken(tok)
    \/ SweepTimer
    \/ ClockTicks

SpecAuth == AuthInit /\ [][AuthNext]_vars

-----------------------------------------------------------------------------
(* The router: a request to a route with an :objectClass parameter goes     *)
(* through the parameter's validator and then to the route's handler,       *)
(* which calls the connector. A parameter value is described by its         *)
(* length, the class of its first character and that of the others.         *)

ObjectClassLimit == 128

\* The routes with an :objectClass parameter, named by the spi method they call.
ObjectClassRoutes == {"search", "sync", "create", "get", "update", "delete",
                      "addAttributeValues", "removeAttributeValues"}
BodyRoutes == ObjectClassRoutes \ {"get", "delete"}

ParamLengths == {0, 1, 2, ObjectClassLimit, ObjectClassLimit + 1}
ParamValues ==
    {[len |-> 0, first |-> "none", rest |-> "word"]}
      \cup {[len |-> 1, first |-> f, rest |-> "word"] :
                f \in {"letter", "underscore", "digit", "dash"}}
      \cup [len : ParamLengths \ {0, 1}, first : {"letter", "underscore", "digit", "dash"},
            rest : {"word", "other"}]

Requests == [route : ObjectClassRoutes, objectClass : ParamValues,
             connector : {"loaded", "missing"}, method : {"present", "absent"},
             body : {"valid", "invalid"}, outcome : {"resolves", "rejects"}]

HttpInit ==
    /\ http \in [unit : {"http"}, req : Requests, stage : {"received"},
                 status : {0}, error : {"-"}, invoked : {FALSE}]
    /\ CoreInit
    /\ oauth = NoUnit
    /\ registry = NoUnit
    /\ loader = NoUnit
    /\ filter = NoUnit
    /\ search = NoUnit
    /\ auth = NoUnit

HttpQuiet == UNCHANGED <<oauth, registry, loader, filter, search, auth>> /\ CoreQuiet

\* OBJECT_CLASS_RE.test(value): /^[A-Za-z_][A-Za-z0-9_-]*$/
OBJECT_CLASS_RE(value) ==
    /\ value.len >= 1
    /\ value.first \in {"letter", "underscore"}
    /\ value.rest = "word"

answer(h, status, error) == [h EXCEPT !.stage = "answered", !.status = status, !.error = error]

\* r.param("objectClass", ...)
ParamObjectClass ==
    /\ http.stage = "received"
    /\ http' = IF http.req.objectClass.len = 0 \/ ~OBJECT_CLASS_RE(http.req.objectClass)
               THEN answer(http, 400, "Invalid objectClass")
               ELSE [http EXCEPT !.stage = "routed"]
    /\ HttpQuiet

\* The status a route answers when the connector's method resolves.
successStatus(route) ==
    CASE route = "create" -> 201 [] route = "delete" -> 204 [] OTHER -> 200

\* The status a route answers when the connector's method rejects.
failureStatus(route) == IF route = "get" THEN 404 ELSE 500

\* The handler of a route: getSpi, the method test, the body schema, the call.
RouteHandler ==
    /\ http.stage = "routed"
    /\ http' =
         IF http.req.connector = "missing" THEN answer(http, 404, "Connector not found")
         ELSE IF http.req.method = "absent" THEN answer(http, 501, "not implemented")
         ELSE IF http.req.route \in BodyRoutes /\ http.req.body = "invalid"
         THEN answer(http, 400, "body")
         ELSE IF http.req.outcome = "resolves"
         THEN [answer(http, successStatus(http.req.route), "-") EXCEPT !.invoked = TRUE]
         ELSE [answer(http, failureStatus(http.req.route), "failed") EXCEPT !.invoked = TRUE]
    /\ HttpQuiet

HttpNext == ParamObjectClass \/ RouteHandler

SpecHttp == HttpInit /\ [][HttpNext]_vars

----------------------------------------------------------------------------
(* Claims about the breaker, checked under SpecBreaker. *)

Failed == last.ev \in {"fail", "timeout"}

\* C1: starting from CLOSED, the failureThreshold-th failure with no success in
\* between leaves the breaker OPEN, and every exec issued while no more than
\* halfOpenAfterMs has passed since it opened is rejected with CircuitOpen: no
\* fn is invoked and nothing in flight is touched.
C1_OpensAtThresholdAndFailsFast ==
    /\ (Failed /\ win >= FailureThreshold) => cb.state = "OPEN"
    /\ (last.ev = "exec" /\ last.pre.state = "OPEN" /\ last.at - openTime <= HalfOpenAfterMs)
        => /\ last.outcome = "CircuitOpen"
           /\ last.call = 0
           /\ Running(calls) = last.running
           /\ cb.state = "OPEN"

C1_Witness ==
    /\ last.ev = "exec"
    /\ last.outcome = "CircuitOpen"
    /\ win = FailureThreshold
    /\ last.at - openTime = HalfOpenAfterMs

\* C2: an exec that finds inflight >= maxConcurrent is rejected with
\* TooManyRequests, invokes nothing, and leaves the breaker and the calls in
\* flight exactly as they were.
C2_ConcurrencyCap ==
    (last.ev = "exec" /\ last.pre.inflight >= MaxConcurrent)
        => /\ last.outcome = "TooManyRequests"
           /\ last.call = 0
           /\ Running(calls) = last.running
           /\ cb = last.pre

C2_Witness ==
    /\ last.ev = "exec"
    /\ last.outcome = "TooManyRequests"
    /\ Cardinality(Running(calls)) = MaxConcurrent

\* C3: a HALF breaker has seen fewer than successThreshold successes; it leaves
\* HALF for CLOSED only by the success that is the successThreshold-th since it
\* became HALF; a failure in HALF re-opens it at the time of that failure.
C3_HalfOpenTransitions ==
    /\ cb.state = "HALF" => halfSucc < SuccessThreshold
    /\ (last.pre.state = "HALF" /\ cb.state = "CLOSED")
        => (last.ev = "ok" /\ halfSucc = SuccessThreshold)
    /\ (Failed /\ last.pre.state = "HALF")
        => (cb.state = "OPEN" /\ cb.openedAt = last.at)

C3_Witness ==
    /\ last.pre.state = "HALF"
    /\ cb.state = "CLOSED"
    /\ last.pre.successes = SuccessThreshold - 1

\* C4: while the probe admitted by the OPEN -> HALF transition has not settled,
\* no other exec is admitted.
C4_SingleProbe ==
    (last.ev = "exec" /\ last.pre.state = "HALF" /\ probe # 0 /\ probe \in last.running)
        => last.outcome # "admitted"

\* C5: no call is still racing after timeoutMs; the call whose timer fires
\* rejects with BreakerTimeout and is counted as a failure: in CLOSED failures
\* grows by one and the breaker opens exactly at the threshold, in HALF the
\* breaker re-opens at that time.
C5_TimeoutCountsAsFailure ==
    /\ \A c \in Calls : calls[c].status = "running" => now - calls[c].startedAt <= TimeoutMs
    /\ last.ev = "timeout"
        => /\ last.outcome = "BreakerTimeout"
           /\ cb.inflight = last.pre.inflight - 1
           /\ last.pre.state = "CLOSED"
                => /\ cb.failures = last.pre.failures + 1
                   /\ (cb.state = "OPEN") = (cb.failures >= FailureThreshold)
                   /\ cb.state = "OPEN" => cb.openedAt = last.at
           /\ last.pre.state = "HALF"
                => (cb.state = "OPEN" /\ cb.openedAt = last.at)

C5_Witness ==
    /\ last.ev = "timeout"
    /\ last.pre.state = "CLOSED"
    /\ cb.state = "OPEN"
    /\ cb.openedAt = last.at

----------------------------------------------------------------------------
(* Claims about the Facade's cache *)

Succeeded(kinds) == flast.outcome = "ok" /\ ~flast.hit /\ flast.kind \in kinds

\* The readable entries of c that hold an object of (i, oc), by where the value came from.
EntriesOfClass(c, i, oc) ==
    {e \in c : live(e, now) /\ e.val.kind = "object" /\ e.val.inst = i /\ e.val.oc = oc}

EntriesOf(c, i, oc, uid) == {e \in EntriesOfClass(c, i, oc) : e.val.uid = uid}

SchemaEntriesOf(c, i) == {e \in c : live(e, now) /\ e.val.kind = "schema" /\ e.val.inst = i}

\* The gets of the returned call's object, under every projection.
GetsOf(r) ==
    {c \in AllCalls : c.kind = "get" /\ c.inst = r.inst /\ c.oc = r.oc /\ c.uid = r.uid}

\* C6: when an update or a delete of (oc, uid) returns successfully through a Facade,
\* no readable cache entry holds that object any more, whatever its projection, and
\* a get of the object under any projection misses the cache, so it calls the impl.
C6_WriteDropsCachedGets ==
    Succeeded({"update", "delete"}) =>
        /\ EntriesOf(cache, flast.inst, flast.oc, flast.uid) = {}
        /\ \A c \in GetsOf(flast) : ~Hit(c, facades[flast.inst].impl)

\* An update or delete returns while two projections of its object were cached.
C6_Witness ==
    /\ Succeeded({"update", "delete"})
    /\ Cardinality({e.val.attrs : e \in EntriesOf(flast.pre, flast.inst, flast.oc, flast.uid)}) >= 2

\* C7: a get answered from the cache never returns a version of the object older
\* than the one written by an update that has already returned successfully, also
\* when gets and the update overlap.
C7_NoStaleHitAcrossUpdate ==
    (flast.kind = "get" /\ flast.hit) =>
        flast.val.ver >= committed[flast.inst][flast.oc][flast.uid]

\* C8: when a create on (instance, oc) returns successfully, no readable cache entry
\* holds the instance's schema or an object of oc on that instance, for any uid and
\* projection, and schema() and every get(oc, .) miss the cache.
C8_CreateDropsSchemaAndGets ==
    Succeeded({"create"}) =>
        /\ SchemaEntriesOf(cache, flast.inst) = {}
        /\ EntriesOfClass(cache, flast.inst, flast.oc) = {}
        /\ \A c \in AllCalls :
               (c.kind \in ReadKinds /\ c.inst = flast.inst /\ c.oc \in {"-", flast.oc})
                   => ~Hit(c, facades[flast.inst].impl)

\* A create returns while the schema, two objects of the class and two projections
\* of one of them were cached.
C8_Witness ==
    /\ Succeeded({"create"})
    /\ SchemaEntriesOf(flast.pre, flast.inst) # {}
    /\ Cardinality({e.val.uid : e \in EntriesOfClass(flast.pre, flast.inst, flast.oc)}) >= 2
    /\ Cardinality({e.val.attrs : e \in EntriesOfClass(flast.pre, flast.inst, flast.oc)}) >= 2

\* C9: when addAttributeValues or removeAttributeValues of (oc, uid) returns
\* successfully, no readable cache entry holds that object any more.
C9_AttributeValuesDropCachedGets ==
    Succeeded({"addAttributeValues", "removeAttributeValues"}) =>
        EntriesOf(cache, flast.inst, flast.oc, flast.uid) = {}

\* C10: a get or schema answered from the cache returns a value that the Facade's
\* own instance produced.
C10_CacheNamespacedByInstance ==
    (flast.hit /\ flast.kind \in ReadKinds) => flast.val.inst = flast.inst

\* The ways a Facade call fails: the impl rejects, or the breaker throws.
FailedOutcomes == {"error", "CircuitOpen", "TooManyRequests", "BreakerTimeout"}

FailedWrite == flast.kind \in {"create", "update", "delete"} /\ flast.outcome \in FailedOutcomes

\* C11: a create, update or delete that fails (impl rejects, CircuitOpen,
\* TooManyRequests, BreakerTimeout) leaves every cache entry as it was: the cache
\* after the failing call returns is the cache that call found.
C11_FailedWriteKeepsCache == FailedWrite => cache = flast.pre

\* An update times out while a get of its object is cached.
C11_Witness ==
    /\ FailedWrite
    /\ flast.kind = "update"
    /\ flast.outcome = "BreakerTimeout"
    /\ EntriesOf(flast.pre, flast.inst, flast.oc, flast.uid) # {}

\* C12: two gets of an object share a cache entry exactly when their attributesToGet
\* are equal as sets (order and duplicates ignored, absent as empty): while an entry
\* cached for a set of attributes is readable every get asking for that set is
\* answered from the cache, and a get answered from the cache receives a value
\* fetched for its own set of attributes.
C12_EntrySharedIffSameAttributeSet ==
    \A c \in ProjectionCalls :
        /\ (\E e \in EntriesOf(cache, c.inst, c.oc, c.uid) : e.val.attrs = AttrSet(c.opts))
               => Hit(c, facades[c.inst].impl)
        /\ Hit(c, facades[c.inst].impl)
               => cacheGet(cache, KeyOf(c, facades[c.inst].impl)).attrs = AttrSet(c.opts)

----------------------------------------------------------------------------
(* Claims about the remote session *)

\* The events that call scheduleReconnect, and 'error', which calls it when the
\* socket is CLOSED.
ReconnectTriggers == {"close", "closeError", "error", "unexpectedResponse", "tokenFailure"}

\* C13: a session has at most one reconnect timer pending, the one reconnectHandle
\* names; a reconnect trigger (close, error, unexpected response, token failure)
\* that arrives while a timer is pending arms nothing and leaves that timer alone.
C13_AtMostOneReconnectTimer ==
    /\ BagCardinality(timers) <= 1
    /\ timers = (IF svc.reconnectHandle = NoHandle
                 THEN EmptyBag ELSE SetToBag({svc.reconnectHandle}))
    /\ (slast.ev \in ReconnectTriggers /\ slast.preTimers # EmptyBag)
           => (~slast.armed /\ timers = slast.preTimers)

\* A socket closes while the timer armed by its unexpected response is pending.
C13_Witness ==
    /\ slast.ev = "close"
    /\ ~slast.pre.shuttingDown
    /\ slast.preTimers # EmptyBag
    /\ BagCardinality(timers) = 1

RECURSIVE Pow2(_)
Pow2(n) == IF n <= 0 THEN 1 ELSE 2 * Pow2(n - 1)

\* C14: the k-th reconnect timer armed since start or since the last successful
\* open has delay min(1000 * 2^(k-1), 30000) ms; the delay never exceeds the cap,
\* never decreases except at an open, and is the initial delay after an open.
C14_BackoffDelay ==
    /\ slast.armed =>
           svc.reconnectHandle =
               Min(ReconnectInitialDelayMs * Pow2(slast.k - 1), ReconnectMaxDelayMs)
    /\ svc.reconnectDelayMs <= ReconnectMaxDelayMs
    /\ slast.ev = "open" => svc.reconnectDelayMs = ReconnectInitialDelayMs
    /\ slast.ev \notin {"open", "none"} => svc.reconnectDelayMs >= slast.pre.reconnectDelayMs

\* The sixth timer in a row is armed: the doubling has met the cap.
C14_Witness ==
    /\ slast.armed
    /\ slast.k = 6
    /\ svc.reconnectHandle = ReconnectMaxDelayMs

\* After an open reset the delay, the next timer is armed with the initial delay.
C14_WitnessReset ==
    /\ slast.armed
    /\ slast.k = 1
    /\ slast.pre.ws # NoSocket
    /\ svc.reconnectHandle = ReconnectInitialDelayMs

\* C15: once shutdown() has been called no reconnect timer is pending and none is
\* armed again, and no new WebSocket is created, whatever was in progress at the
\* call: a pending timer, a token fetch, a connecting socket.
C15_ShutdownStopsReconnect ==
    /\ svc.shuttingDown => timers = EmptyBag
    /\ slast.pre.shuttingDown => ~slast.armed
    /\ ~(slast.ev = "connect" /\ slast.pre.shuttingDown)

\* C16: once shutdown() has been called no inbound operation frame is dispatched
\* to a Facade.
C16_NoDispatchAfterShutdown ==
    ~(slast.ev = "frame" /\ slast.pre.shuttingDown /\ slast.dispatched)

\* The step just taken handled an operation frame.
OperationFrame == slast.ev = "frame" /\ slast.frame.json /\ slast.frame.type = "operation"

\* this.ws was socket k, and OPEN, when the step just taken ran.
OpenAt(k) == slast.pre.ws = k /\ k # NoSocket /\ socks[k].state = "OPEN"

Failure(r) == <<Msg("response", r, "false")>>
Success(r) == <<Msg("response", r, "true")>>

\* One response per operation frame whose requestId is in ids: with the connection
\* open, the frame is answered success:false at once or its Facade call is pending,
\* a call that settles as one of oks is answered success:true, any other
\* success:false, and no requestId is ever answered twice.
OneResponse(ids, oks) ==
    /\ \A r \in RequestIds : Len(replies[r]) <= 1
    /\ \A p \in pending : replies[p.requestId] = <<>>
    /\ (OperationFrame /\ slast.frame.requestId \in ids /\ OpenAt(slast.sock)) =>
           \/ /\ slast.dispatched
              /\ slast.sent = <<>>
              /\ \E p \in pending : p.requestId = slast.frame.requestId
           \/ /\ ~slast.dispatched
              /\ slast.sent = Failure(slast.frame.requestId)
              /\ replies[slast.frame.requestId] = <<"false">>
    /\ (slast.ev \in oks /\ OpenAt(slast.sock)) =>
           /\ slast.sent = Success(slast.frame.requestId)
           /\ replies[slast.frame.requestId] = <<"true">>
    /\ (slast.ev \in (Results \cup {"rejected"}) \ oks /\ OpenAt(slast.sock)) =>
           /\ slast.sent = Failure(slast.frame.requestId)
           /\ replies[slast.frame.requestId] = <<"false">>

\* C17 as stated: for every operation frame with a string requestId, the connection
\* staying open, the session emits exactly one response frame with that requestId:
\* success:true if the Facade call resolves, success:false if it rejects, never both.
C17_OneResponsePerStringRequestId == OneResponse(RequestIds, Results)

\* C17, amended: the same for every operation frame with a non-empty string
\* requestId, success:true if the Facade call resolves with a result that
\* serialises as JSON, success:false if it rejects or the result does not serialise.
C17_OneResponsePerNonEmptyRequestId == OneResponse(RequestIds \ {""}, {"resolved"})

\* A dispatched operation's Facade call rejects with the connection still open.
C17_Witness ==
    /\ slast.ev = "rejected"
    /\ OpenAt(slast.sock)
    /\ slast.sent # <<>>

\* C18: a frame that is not valid JSON, has no string type, or is an operation
\* frame without a requestId causes no Facade call and no reply frame.
C18_MalformedFrameIgnored ==
    (slast.ev = "frame" /\
        \/ ~slast.frame.json
        \/ slast.frame.type = "absent"
        \/ slast.frame.type = "operation" /\ slast.frame.requestId = NoRequestId)
    => (~slast.dispatched /\ slast.sent = <<>>)

\* A well-formed get for a known connector arrives on the open connection without
\* a requestId.
C18_Witness ==
    /\ OperationFrame
    /\ slast.frame.requestId = NoRequestId
    /\ slast.frame.operation = "get"
    /\ slast.frame.missing = "none"
    /\ Known(slast.frame.connectorId)
    /\ OpenAt(slast.sock)

\* C19: an operation frame whose payload lacks a field its operation requires never
\* reaches the connector impl, and the reply to it is a response frame with
\* success:false, sent whenever the frame has a usable requestId and the connection
\* is open.
C19_MissingFieldRejected ==
    (OperationFrame /\ slast.frame.missing \in Required(slast.frame.operation)) =>
        /\ ~slast.dispatched
        /\ slast.sent \in {<<>>, Failure(slast.frame.requestId)}
        /\ (slast.frame.requestId \in RequestIds \ {""} /\ OpenAt(slast.sock))
               => slast.sent = Failure(slast.frame.requestId)

\* An update without attrs for a known connector is answered success:false.
C19_Witness ==
    /\ OperationFrame
    /\ slast.frame.operation = "update"
    /\ slast.frame.missing = "attrs"
    /\ Known(slast.frame.connectorId)
    /\ slast.sent = Failure("r1")

\* Every frame the step just taken sent carries requestId r.
Echoes(r) == \A i \in 1..Len(slast.sent) : slast.sent[i].requestId = r

\* Replies echo the requestId of every request whose requestId is in ids.
EchoesRequestId(ids) ==
    (slast.ev \in {"frame", "rejected"} \cup Results /\ slast.frame.requestId \in ids)
        => Echoes(slast.frame.requestId)

\* C20 as stated: every reply frame (pong, connectors, response, error) carries the
\* requestId of the request that caused it whenever that request carried one.
C20_RepliesEchoRequestId == EchoesRequestId(RequestIds \cup {NotAString})

\* C20, amended: every reply frame carries the requestId of the request that caused
\* it whenever that request carried a string requestId.
C20_RepliesEchoStringRequestId == EchoesRequestId(RequestIds)

\* A frame of unknown type with a requestId is answered with an error frame.
C20_Witness ==
    /\ slast.ev = "frame"
    /\ slast.frame.type = "bogus"
    /\ slast.frame.requestId = "r1"
    /\ slast.sent = <<Msg("error", "r1", "-")>>

----------------------------------------------------------------------------
(* Claims about the token provider, the registry and the loader *)

ValidatedFirst(trace) ==
    \A j \in 1..Len(trace) :
        trace[j] = "factory" => \E i \in 1..(j - 1) : trace[i] = "validated"

\* C22: when the effective configuration has a validate hook, initInstance invokes
\* the factory only after validate has completed; when validate fails the factory
\* is not invoked and the stored instances are those the call found.
C22_ValidateBeforeFactory ==
    /\ (registry.call # NoCall /\ registry.call.cfg = "validated" /\
            registry.call.stage \in {"validate", "factory"})
           => ValidatedFirst(registry.call.trace)
    /\ registry.last.cfg = "validated" /\ registry.last.ev \in {"stored", "factoryError"}
           => ValidatedFirst(registry.last.trace)
    /\ registry.last.ev = "validateError" =>
           /\ "factory" \notin Range(registry.last.trace)
           /\ registry.instances = registry.last.pre

\* The builder's configuration fails validation.
C22_Witness ==
    /\ registry.last.ev = "validateError"
    /\ registry.last.trace = <<"builder", "validate">>

\* A builder's configuration with a validate hook is validated, then stored.
C22_WitnessStored ==
    /\ registry.last.ev = "stored"
    /\ registry.last.trace = <<"builder", "validate", "validated", "factory">>

\* C23: initInstance for a (type, version) pair under which no factory was
\* registered fails as an unknown connector type, runs no builder, validate hook or
\* factory, and leaves the stored instances unchanged.
C23_UnknownPairFails ==
    /\ registry.call # NoCall => registry.call.known
    /\ (registry.last.ev # "none" /\ ~registry.last.known) =>
           /\ registry.last.ev = "unknownConnectorType"
           /\ registry.last.trace = <<>>
           /\ registry.instances = registry.last.pre

\* C25: an instance stored under an id stays the instance under that id: no
\* registry operation replaces or removes it.
C25_InstanceNeverReplaced ==
    [][\A id \in InstanceIds :
          registry.instances[id] # NoInstance
              => registry'.instances[id] = registry.instances[id]]_vars

\* Semantic-version precedence: the number a run of digits denotes, the numeric
\* components of a version's core, and whether it carries a pre-release.
RECURSIVE Number(_, _)
Number(digits, acc) ==
    IF digits = <<>> THEN acc
    ELSE Number(Tail(digits), 10 * acc + (CodeUnit(Head(digits)) - 48))

RECURSIVE Components(_)
Components(core) ==
    IF core = <<>> THEN <<>>
    ELSE <<Number(upTo(core, "."), 0)>> \o Components(after(core, "."))

RECURSIVE NumbersLess(_, _)
NumbersLess(a, b) ==
    IF a = <<>> \/ b = <<>> THEN FALSE
    ELSE IF Head(a) # Head(b) THEN Head(a) < Head(b)
    ELSE NumbersLess(Tail(a), Tail(b))

Core(v) == Components(upTo(v, "-"))
PreRelease(v) == after(v, "-")

\* a precedes b: by the numeric components, then a pre-release before its release.
SemverLess(a, b) ==
    \/ NumbersLess(Core(a), Core(b))
    \/ Core(a) = Core(b) /\ PreRelease(a) # <<>> /\ PreRelease(b) = <<>>
    \/ Core(a) = Core(b) /\ PreRelease(a) # <<>> /\ PreRelease(b) # <<>>
           /\ lexLess(PreRelease(a), PreRelease(b))

RegisteredVersions(type) == {p[2] : p \in {q \in registry.pairs : q[1] = type}}

\* C24: getVersions(type) returns exactly the versions registered for the type, in
\* ascending semantic-version precedence, and getLatestVersion(type) the greatest
\* of them in that precedence.
C24_VersionsInSemverOrder ==
    /\ registry.last.ev = "getVersions" =>
           /\ Range(registry.last.result) = RegisteredVersions(registry.last.pair[1])
           /\ Len(registry.last.result) = Cardinality(RegisteredVersions(registry.last.pair[1]))
           /\ \A i, j \in 1..Len(registry.last.result) :
                  i < j => SemverLess(registry.last.result[i], registry.last.result[j])
    /\ registry.last.ev = "getLatestVersion" =>
           /\ registry.last.result = <<>> <=> RegisteredVersions(registry.last.pair[1]) = {}
           /\ \A v \in Range(registry.last.result) :
                  /\ v \in RegisteredVersions(registry.last.pair[1])
                  /\ \A w \in RegisteredVersions(registry.last.pair[1]) :
                         w = v \/ SemverLess(w, v)

\* The instances a directory yields when it is loaded: none when the entry is
\* faulty, otherwise those declared before the first one that fails.
Loadable(inst) ==
    /\ ~inst.initFails
    /\ resolveEnvStrings(loader.env, inst.value) # "missing"

Yield(d) ==
    IF loader.entries[d].fault # "none" THEN {}
    ELSE {i \in 1..Len(loader.entries[d].instances) :
              \A j \in 1..i : Loadable(loader.entries[d].instances[j])}

InitialisedFrom(d) == {t[2] : t \in {u \in loader.initialised : u[1] = d}}

C26_WitnessInstanceError ==
    /\ loader.pos > NumDirs
    /\ <<1, 1>> \in loader.failed
    /\ InitialisedFrom(2) # {}

\* C27: the configuration an instance is initialised with has every value of
\* the form ${ENV_NAME} replaced by the value of that environment variable, and
\* an instance whose configuration names an unset variable is not initialised:
\* its load fails.
C27_EnvSubstituted ==
    /\ \A t \in loader.initialised :
           t[3] = resolveEnvStrings(loader.env, loader.entries[t[1]].instances[t[2]].value)
    /\ \A d \in 1..NumDirs : \A i \in 1..Len(loader.entries[d].instances) :
           resolveEnvStrings(loader.env, loader.entries[d].instances[i].value) = "missing"
               => i \notin InitialisedFrom(d)

\* The value of a CMP node matches its operator.
ValueMatchesOp(n) ==
    CASE n.op = "EXISTS" -> n.value = NoValue
      [] n.op = "IN" -> /\ n.value.kind = "array"
                        /\ n.value.elems \in {"string", "number", "boolean"}
                        /\ n.value.len >= 1 /\ n.value.len <= MaxArrayLen
      [] OTHER -> n.value.kind \in {"string", "number", "boolean"}

\* C28: parseFilter accepts a CMP node only if its value matches its operator:
\* absent exactly for EXISTS, an array of 1..100 primitives for IN, a single
\* primitive for every other operator.
C28_CmpValueMatchesOperator ==
    (filter.input.type = "CMP" /\ filter.accepted) => ValueMatchesOp(filter.input)

\* The paths of the comparisons of a tree.
RECURSIVE PathsOf(_)
PathsOf(n) ==
    CASE n.type = "CMP" -> {n.path}
      [] n.type \in {"AND", "OR"} -> UNION {PathsOf(n.nodes[i]) : i \in 1..Len(n.nodes)}
      [] n.type = "NOT" -> PathsOf(n.node)
      [] OTHER -> {}

ODataAllowed(path) == Len(path) = 1 /\ path[1] \in AllowedFields
SqlAllowed(path) == pathKey(path) \in DOMAIN Columns /\ Columns[pathKey(path)] \in SafeColumns

\* C29: for a tree that parseFilter accepted and whose paths are all
\* allow-listed for a translator, that translator returns a query and does not
\* throw, whatever the comparison operators and combinators of the tree.
C29_TranslatorsTotal ==
    /\ (filter.odata # NoText /\ (\A path \in PathsOf(filter.input) : ODataAllowed(path))) => filter.odata.ok
    /\ (filter.sql # NoText /\ (\A path \in PathsOf(filter.input) : SqlAllowed(path))) => filter.sql.ok

\* C30: once the handler of a streaming search has returned false, the search
\* has returned: no object was offered and no page was requested after that
\* answer, and the cookie returned is the continuation link of the page the
\* handler stopped on, none when that page carried no link.
C30_StreamingSearchCancels ==
    search.cancelled =>
        /\ search.stage = "returned"
        /\ search.offered = search.atCancel.offered
        /\ search.fetched = search.atCancel.fetched
        /\ search.cookie = currentCookie(search.pages[search.atCancel.page],
                                         search.atCancel.page)

\* The handler stops on the first object of the second page, which has more
\* objects and a next page.
C30_Witness ==
    /\ search.cancelled
    /\ search.atCancel.page = 2
    /\ search.pages[2].items = 2
    /\ search.offered = search.pages[1].items + 1
    /\ search.cookie = Link("next", 2)

------------------------------------------------------------------------\* C33: what Facade.search returns as results, when the impl's search took the
\* handler, is exactly the sequence of objects the impl offered to the handler:
\* the same objects in the same order, none lost, none twice.
C33_FacadeSearchCollectsAll ==
    search.facade = "returned" => search.results = search.emitted

\* Three objects from two pages are returned.
C33_Witness ==
    /\ search.facade = "returned"
    /\ search.results = <<<<1, 1>>, <<1, 2>>, <<2, 1>>>>

\* C34: when the loader is through, every instance declared by a manifest
\* whose module was loaded has been attempted (initialised, or failed in its
\* own load), also those declared after an instance that failed.
C34_EveryDeclaredInstanceAttempted ==
    loader.pos > NumDirs =>
        \A d \in loader.registered : \A i \in 1..Len(loader.entries[d].instances) :
            i \in InitialisedFrom(d) \/ <<d, i>> \in loader.failed

-----------------\* The updates and deletes of (i, oc, uid) that the backend has applied and whose
\* Facade call ended with BreakerTimeout before the impl's promise settled.
AppliedAfterTimeout(i, oc, uid) ==
    {op \in InFlight : /\ op.phase = "orphanActed" /\ op.wrote > 0
                       /\ op.call.kind \in {"update", "delete"}
                       /\ op.call.inst = i /\ op.call.oc = oc /\ op.call.uid = uid}

\* C40: a get answered from the cache never returns a version of the object older
\* than one the backend has written for an update or delete issued through the
\* Facade, when that Facade call ended with BreakerTimeout before the backend
\* finished (for writes that returned successfully this is C7's formula).
C40_NoPreWriteHitAfterTimedOutWrite ==
    (flast.kind = "get" /\ flast.hit) =>
        \A op \in AppliedAfterTimeout(flast.inst, flast.oc, flast.uid) :
            flast.val.ver >= op.wrote

------------------------------------------------------------
(* Claims about settlements that arrive late *)

\* C35: the settlement (success, failure or timeout) of a call that was
\* admitted before the breaker's most recent transition to OPEN leaves the
\* breaker's state, its count of probe successes and openedAt as they were.
C35_StaleSettlementIgnored ==
    (last.ev \in {"ok", "fail", "timeout"} /\ last.old) =>
        /\ cb.state = last.pre.state
        /\ cb.successes = last.pre.successes
        /\ cb.openedAt = last.pre.openedAt

\* The invocations of the underlying function that have started and not settled.
InProgress == {c \in Calls : calls[c].status \in {"running", "orphan"}}

\* C36: the breaker's inflight counter equals the number of invocations of the
\* underlying function in progress, so that at most maxConcurrent of them are
\* in progress at once, also after calls have timed out.
C36_InflightCountsInvocations ==
    /\ cb.inflight = Cardinality(InProgress)
    /\ Cardinality(InProgress) <= MaxConcurrent

\* C37: the response of an operation is sent on the socket on which its
\* request arrived, never on a socket established later.
C37_ResponseOnRequestSocket ==
    (slast.ev \in {"resolved", "unserialisable", "rejected"} /\ slast.sent # <<>>)
        => slast.pre.ws = slast.sock

\* The sockets that are connecting or open.
Live == {k \in Socks : socks[k].state \in {"CONNECTING", "OPEN"}}

\* C38: at most one socket of the session is connecting or open at any time.
C38_AtMostOneLiveSocket == Cardinality(Live) <= 1

\* A second socket is connecting after the first one was closed.
C38_Witness ==
    /\ socks[1].state = "CLOSED"
    /\ socks[2].state = "CONNECTING"

-----
(* Claims about the HTTP front end *)

\* C31: a token that carries a jti is accepted at most once: a request that
\* presents a jti already accepted, with a token that passes verification, is
\* answered 401 "Replay detected".
C31_JtiAcceptedOnce ==
    /\ \A j \in Jtis : auth.accepted[j] <= 1
    /\ (auth.last.ev = "request" /\ auth.last.verified /\ auth.last.seen)
           => (auth.last.status = 401 /\ auth.last.error = "Replay detected")

\* C32: a request whose objectClass is longer than 128 characters is answered
\* 400 "Invalid objectClass" on every route with that parameter, and the
\* connector is not invoked.
C32_LongObjectClassRejected ==
    (http.req.objectClass.len > ObjectClassLimit /\ http.stage # "received") =>
        /\ http.stage = "answered"
        /\ http.status = 400
        /\ http.error = "Invalid objectClass"
        /\ ~http.invoked

====
